---- MODULE Spec2Model ----
(***************************************************************************)
(* Inline suggestion review of OllaMark (src/src/ui/InlineDiff.ts): the    *)
(* suggestion state field of one editor view, the actions that accept and  *)
(* reject suggestions and the title, the document edits that remap the     *)
(* live ranges, and the resolution callback of the review promise.         *)
(*                                                                         *)
(* Texts are sequences of one-character strings; a position is an offset   *)
(* 0..Len(doc) as in CodeMirror.                                            *)
(***************************************************************************)
EXTENDS Integers, Sequences, FiniteSets, TLC

----------------------------------------------------------------------------
(* Bounds of the model *)

\* longest document the model edits
MaxDoc == 3
\* most suggestions a caller hands to showInlineSuggestions
MaxSugg == 2
\* most parts of one line diff handed to buildSuggestions
MaxParts == 2
\* reviews started on the view
MaxSessions == 1
\* invocations of one resolution callback that are recorded
MaxCalls == 2
\* document edits the user makes while a review is shown
MaxEdits == 1
\* longest text handed to buildSuggestions and buildSegments
MaxText == 4
\* highest offset a diffed selection starts at
MaxStart == 1

----------------------------------------------------------------------------
(* Values *)

\* JavaScript undefined (an absent optional field)
Undefined == "undefined"

\* the document the editor starts with
InitialDoc == <<"a", "b">>
\* what the user types in one edit
TypedTexts == {<< >>, <<"u">>}
\* replacement texts of caller-supplied suggestions
SuggestedTexts == {<< >>, <<"x">>}
\* values of the parts of a line diff
PartValues == {<<"a">>, <<"b">>, <<"x">>}
PartKinds == {"added", "removed", "context"}
\* options.proposedTitle / options.currentTitle given to showInlineSuggestions
ProposedTitleInputs == {Undefined, "", " ", "New", " New ", "Old"}
CurrentTitleInputs == {Undefined, "Old"}

\* String.prototype.trim on the title inputs
Trim(s) ==
    CASE s = " " -> ""
      [] s = " New " -> "New"
      [] OTHER -> s

\* JavaScript truthiness of an optional string
Truthy(s) == s # Undefined /\ s # ""

\* `suggestion-${idCounter}`
SuggestionId(n) == <<"suggestion-", n>>

Min(a, b) == IF a < b THEN a ELSE b
Max(a, b) == IF a > b THEN a ELSE b

\* the line terminator and the characters of the texts that are diffed
Newline == "\n"
TextChars == {"a", Newline}
\* the texts of Scenario A
HelloWorld == <<"h", "e", "l", "l", "o", " ", "w", "o", "r", "l", "d">>
HelloBraveWorld ==
    <<"h", "e", "l", "l", "o", " ", "b", "r", "a", "v", "e", " ",
      "w", "o", "r", "l", "d">>

----------------------------------------------------------------------------
(* The document collaborator (CodeMirror ChangeSet) *)

\* one change spec {from, to, insert}
Change(from, to, insert) == [from |-> from, to |-> to, insert |-> insert]

\* the text after one change spec is applied
Replace(text, from, to, insert) ==
    SubSeq(text, 1, from) \o insert \o SubSeq(text, to + 1, Len(text))

\* tr.docChanged: the change set is not empty
DocChanged(c) == ~(c.from = c.to /\ Len(c.insert) = 0)

\* MapPos that leaves every position where it was
MapPosStays(pos, c, len) == [thrown |-> FALSE, pos |-> pos]

\* ChangeSet.mapPos(pos) (assoc = -1) through one change of a document of
\* length len: a RangeError for a position past the old document
MapPos(pos, c, len) ==
    IF pos > len THEN [thrown |-> TRUE, pos |-> pos]
    ELSE IF ~DocChanged(c) THEN [thrown |-> FALSE, pos |-> pos]
    ELSE IF pos < c.from /\ c.from > 0 THEN
        \* inside the unchanged section before the change
        [thrown |-> FALSE, pos |-> pos]
    ELSE IF pos < c.to \/ (pos = c.to /\ c.from = c.to) THEN
        \* inside the replaced range, or at an insertion point: stays before
        [thrown |-> FALSE, pos |-> c.from]
    ELSE [thrown |-> FALSE, pos |-> c.from + Len(c.insert) + (pos - c.to)]

----------------------------------------------------------------------------
(* Sequence helpers *)

RECURSIVE Concat(_)
\* the texts of a sequence of texts joined in order
Concat(texts) ==
    IF texts = << >> THEN << >> ELSE Head(texts) \o Concat(Tail(texts))

RECURSIVE SumSeq(_)
SumSeq(ns) == IF ns = << >> THEN 0 ELSE Head(ns) + SumSeq(Tail(ns))

\* Array.prototype.filter(s => s.id !== id)
WithoutId(suggs, id) == SelectSeq(suggs, LAMBDA s : s.id # id)

\* Array.prototype.find(s => s.id === id) succeeds
HasId(suggs, id) == \E i \in 1..Len(suggs) : suggs[i].id = id

\* Array.prototype.find(s => s.id === id): the first match
FindId(suggs, id) ==
    suggs[CHOOSE i \in 1..Len(suggs) :
            suggs[i].id = id /\ \A j \in 1..(i - 1) : suggs[j].id # id]

----------------------------------------------------------------------------
(* The suggestion state field *)

\* an absent resolveCallback; a registered one is the number of its review
NoCallback == 0

\* StateField.create()
EmptyState ==
    [suggestions |-> << >>, proposedTitle |-> Undefined,
     currentTitle |-> Undefined, resolveCallback |-> NoCallback]

\* the state effects a transaction carries
NoEffect == [type |-> "none"]
SetSuggestionsEffect(value) == [type |-> "setSuggestions", value |-> value]
AcceptSuggestionEffect(id) == [type |-> "acceptSuggestion", value |-> id]
RejectSuggestionEffect(id) == [type |-> "rejectSuggestion", value |-> id]
AcceptAllEffect == [type |-> "acceptAll"]
RejectAllEffect == [type |-> "rejectAll"]

\* ApplyEffect with the acceptSuggestionEffect branch lost: the accepted
\* suggestion stays in the list
ApplyEffectKeepsAccepted(state, effect) ==
    CASE effect.type = "setSuggestions" -> effect.value
      [] effect.type = "rejectSuggestion" ->
            [state EXCEPT !.suggestions = WithoutId(@, effect.value)]
      [] effect.type \in {"acceptAll", "rejectAll"} -> EmptyState
      [] OTHER -> state

\* ApplyEffect with rejectSuggestionEffect handled like rejectAllEffect
ApplyEffectRejectClears(state, effect) ==
    CASE effect.type = "setSuggestions" -> effect.value
      [] effect.type = "acceptSuggestion" ->
            [state EXCEPT !.suggestions = WithoutId(@, effect.value)]
      [] effect.type \in {"rejectSuggestion", "acceptAll", "rejectAll"} ->
            EmptyState
      [] OTHER -> state

\* ApplyEffect with the rejectAllEffect branch lost: the list stays
ApplyEffectRejectAllKeeps(state, effect) ==
    CASE effect.type = "setSuggestions" -> effect.value
      [] effect.type \in {"acceptSuggestion", "rejectSuggestion"} ->
            [state EXCEPT !.suggestions = WithoutId(@, effect.value)]
      [] effect.type = "acceptAll" -> EmptyState
      [] OTHER -> state

\* the first half of update(): the effect of the transaction on the state
ApplyEffect(state, effect) ==
    CASE effect.type = "setSuggestions" -> effect.value
      [] effect.type \in {"acceptSuggestion", "rejectSuggestion"} ->
            [state EXCEPT !.suggestions = WithoutId(@, effect.value)]
      [] effect.type \in {"acceptAll", "rejectAll"} -> EmptyState
      [] OTHER -> state

RECURSIVE MapPosThrough(_, _, _)
\* tr.changes.mapPos(pos) for the change specs of one transaction, which the
\* actions give from the highest range to the lowest
MapPosThrough(pos, changes, len) ==
    IF changes = << >> THEN [thrown |-> pos > len, pos |-> pos]
    ELSE LET c == Head(changes)
             m == MapPos(pos, c, len)
         IN IF m.thrown THEN m
            ELSE IF Tail(changes) = << >> THEN m
            ELSE MapPosThrough(m.pos, Tail(changes),
                               len - (c.to - c.from) + Len(c.insert))

\* MapSuggestion with >= for > in the bounds test: a suggestion that ends at
\* the end of the document is dropped
MapSuggestionStrict(s, changes, oldLength, docLength) ==
    LET newFrom == MapPosThrough(s.from, changes, oldLength)
        newTo == MapPosThrough(s.to, changes, oldLength)
    IN IF newFrom.thrown \/ newTo.thrown THEN [null |-> TRUE, value |-> s]
       ELSE IF newFrom.pos < 0 \/ newTo.pos < 0
               \/ newFrom.pos >= docLength \/ newTo.pos >= docLength
            THEN [null |-> TRUE, value |-> s]
       ELSE [null |-> FALSE,
             value |-> [s EXCEPT !.from = newFrom.pos, !.to = newTo.pos]]

\* MapSuggestion that maps suggestion.from only: the end stays where it was
MapSuggestionKeepsEnd(s, changes, oldLength, docLength) ==
    LET newFrom == MapPosThrough(s.from, changes, oldLength)
    IN IF newFrom.thrown THEN [null |-> TRUE, value |-> s]
       ELSE IF newFrom.pos < 0 \/ newFrom.pos > docLength
            THEN [null |-> TRUE, value |-> s]
       ELSE [null |-> FALSE, value |-> [s EXCEPT !.from = newFrom.pos]]

\* the body of the map() callback: the remapped suggestion, or null
MapSuggestion(s, changes, oldLength, docLength) ==
    LET newFrom == MapPosThrough(s.from, changes, oldLength)
        newTo == MapPosThrough(s.to, changes, oldLength)
    IN IF newFrom.thrown \/ newTo.thrown THEN [null |-> TRUE, value |-> s]
       ELSE IF newFrom.pos < 0 \/ newTo.pos < 0
               \/ newFrom.pos > docLength \/ newTo.pos > docLength
            THEN [null |-> TRUE, value |-> s]
       ELSE [null |-> FALSE,
             value |-> [s EXCEPT !.from = newFrom.pos, !.to = newTo.pos]]

\* MapSuggestions that forgets to remap: the ranges stay as they were
MapSuggestionsUnmapped(suggs, changes, oldLength, docLength) == suggs

\* suggestions.map(...).filter(s => s !== null)
MapSuggestions(suggs, changes, oldLength, docLength) ==
    LET mapped == [i \in 1..Len(suggs) |->
                      MapSuggestion(suggs[i], changes, oldLength, docLength)]
        kept == SelectSeq(mapped, LAMBDA m : ~m.null)
    IN [i \in 1..Len(kept) |-> kept[i].value]

\* tr.docChanged
TrDocChanged(changes) == \E i \in 1..Len(changes) : DocChanged(changes[i])

\* suggestionStateField.update(state, tr)
Update(state, effect, changes, oldLength, docLength) ==
    LET newState == ApplyEffect(state, effect)
    IN IF TrDocChanged(changes) /\ Len(newState.suggestions) > 0
       THEN [newState EXCEPT
               !.suggestions = MapSuggestions(@, changes, oldLength, docLength)]
       ELSE newState

----------------------------------------------------------------------------
(* buildSuggestions *)

\* one part of the line diff: diffLines gives {added, removed, value}
Part(kind, value) ==
    [added |-> kind = "added", removed |-> kind = "removed", value |-> value]

\* pendingRemoval = null
NoPending == [present |-> FALSE, text |-> << >>, from |-> 0, to |-> 0]

\* InSelection without the upper bound: a removal past the range is pushed
InSelectionNoUpper(from, to, selectionStart, selectionEnd) ==
    from >= selectionStart

\* the bounds check each push is guarded by
InSelection(from, to, selectionStart, selectionEnd) ==
    from >= selectionStart /\ to <= selectionEnd

\* PushIf with unshift for push: the newest suggestion comes first
PushIfPrepends(acc, guard, from, to, originalText, suggestedText) ==
    IF guard
    THEN [acc EXCEPT
            !.suggestions = <<[id |-> SuggestionId(acc.idCounter),
                               from |-> from, to |-> to,
                               originalText |-> originalText,
                               suggestedText |-> suggestedText]>> \o @,
            !.idCounter = @ + 1]
    ELSE acc

\* PushIf with idCounter for idCounter++: every suggestion gets the same id
PushIfKeepsCounter(acc, guard, from, to, originalText, suggestedText) ==
    IF guard
    THEN [acc EXCEPT
            !.suggestions = Append(@, [id |-> SuggestionId(acc.idCounter),
                                       from |-> from, to |-> to,
                                       originalText |-> originalText,
                                       suggestedText |-> suggestedText])]
    ELSE acc

\* PushIf with the two texts of the suggestion exchanged
PushIfSwapsTexts(acc, guard, from, to, originalText, suggestedText) ==
    IF guard
    THEN [acc EXCEPT
            !.suggestions = Append(@, [id |-> SuggestionId(acc.idCounter),
                                       from |-> from, to |-> to,
                                       originalText |-> suggestedText,
                                       suggestedText |-> originalText]),
            !.idCounter = @ + 1]
    ELSE acc

\* suggestions.push({id: `suggestion-${idCounter++}`, ...}) under its guard
PushIf(acc, guard, from, to, originalText, suggestedText) ==
    IF guard
    THEN [acc EXCEPT
            !.suggestions = Append(@, [id |-> SuggestionId(acc.idCounter),
                                       from |-> from, to |-> to,
                                       originalText |-> originalText,
                                       suggestedText |-> suggestedText]),
            !.idCounter = @ + 1]
    ELSE acc

\* one iteration of the loop over the parts
BuildStep(acc, change, selectionStart, selectionEnd) ==
    LET text == change.value
        pending == acc.pendingRemoval
    IN IF change.added THEN
           IF pending.present
           THEN [PushIf(acc,
                        InSelection(pending.from, pending.to,
                                    selectionStart, selectionEnd),
                        pending.from, pending.to, pending.text, text)
                   EXCEPT !.pendingRemoval = NoPending]
           ELSE PushIf(acc,
                       acc.currentPos >= selectionStart
                           /\ acc.currentPos <= selectionEnd,
                       acc.currentPos, acc.currentPos, << >>, text)
       ELSE IF change.removed THEN
           LET removeFrom == acc.currentPos
               removeTo == acc.currentPos + Len(text)
           IN [acc EXCEPT
                 !.pendingRemoval =
                     IF pending.present
                     THEN [pending EXCEPT !.text = @ \o text, !.to = removeTo]
                     ELSE [present |-> TRUE, text |-> text,
                           from |-> removeFrom, to |-> removeTo],
                 !.currentPos = removeTo]
       ELSE
           LET flushed ==
                 IF pending.present
                 THEN [PushIf(acc,
                              InSelection(pending.from, pending.to,
                                          selectionStart, selectionEnd),
                              pending.from, pending.to, pending.text, << >>)
                         EXCEPT !.pendingRemoval = NoPending]
                 ELSE acc
           IN [flushed EXCEPT !.currentPos = @ + Len(text)]

RECURSIVE BuildLoopAddedAdvances(_, _, _, _)
\* BuildLoop with currentPos += text.length for added parts too
BuildLoopAddedAdvances(acc, changes, selectionStart, selectionEnd) ==
    IF changes = << >> THEN acc
    ELSE LET change == Head(changes)
             stepped == BuildStep(acc, change, selectionStart, selectionEnd)
         IN BuildLoopAddedAdvances(
                IF change.added
                THEN [stepped EXCEPT !.currentPos = @ + Len(change.value)]
                ELSE stepped,
                Tail(changes), selectionStart, selectionEnd)

RECURSIVE BuildLoop(_, _, _, _)
\* for (const change of changes) { ... }
BuildLoop(acc, changes, selectionStart, selectionEnd) ==
    IF changes = << >> THEN acc
    ELSE BuildLoop(BuildStep(acc, Head(changes), selectionStart, selectionEnd),
                   Tail(changes), selectionStart, selectionEnd)

\* buildSuggestions(originalText, modifiedText, selectionStart, selectionEnd),
\* given changes = diffLines(originalText, modifiedText)
BuildSuggestions(changes, selectionStart, selectionEnd) ==
    LET start == [suggestions |-> << >>, currentPos |-> selectionStart,
                  idCounter |-> 0, pendingRemoval |-> NoPending]
        looped == BuildLoop(start, changes, selectionStart, selectionEnd)
        pending == looped.pendingRemoval
        trailing ==
            IF pending.present
            THEN PushIf(looped,
                        InSelection(pending.from, pending.to,
                                    selectionStart, selectionEnd),
                        pending.from, pending.to, pending.text, << >>)
            ELSE looped
    IN SelectSeq(trailing.suggestions,
                 LAMBDA s : s.originalText # s.suggestedText)

\* the original text a list of parts covers (the parts that are not added)
OriginalOf(changes) ==
    Concat([i \in 1..Len(changes) |->
              IF changes[i].added THEN << >> ELSE changes[i].value])

\* the modified text a list of parts covers (the parts that are not removed)
ModifiedOf(changes) ==
    Concat([i \in 1..Len(changes) |->
              IF changes[i].removed THEN << >> ELSE changes[i].value])

----------------------------------------------------------------------------
(* diffLines of the diff library: a shortest edit script over the lines of the
   two texts, removals in front of additions, runs of one kind joined *)

RECURSIVE Lines(_)
\* the line tokens of a text: every line with its terminator, the last line
\* also without one
Lines(text) ==
    IF text = << >> THEN << >>
    ELSE LET ends == {i \in 1..Len(text) : text[i] = Newline}
         IN IF ends = {} THEN <<text>>
            ELSE LET i == CHOOSE e \in ends : \A f \in ends : e <= f
                 IN <<SubSeq(text, 1, i)>>
                        \o Lines(SubSeq(text, i + 1, Len(text)))

RECURSIVE LcsLength(_, _)
\* the length of a longest common subsequence of two token sequences
LcsLength(o, m) ==
    IF o = << >> \/ m = << >> THEN 0
    ELSE IF Head(o) = Head(m) THEN 1 + LcsLength(Tail(o), Tail(m))
    ELSE Max(LcsLength(Tail(o), m), LcsLength(o, Tail(m)))

RECURSIVE EditScripts(_, _)
\* the edit scripts that turn o into m, one token per entry, no addition
\* directly in front of a removal
EditScripts(o, m) ==
    IF o = << >> /\ m = << >> THEN {<< >>}
    ELSE (IF o # << >> /\ m # << >> /\ Head(o) = Head(m)
          THEN {<<Part("context", Head(o))>> \o d :
                   d \in EditScripts(Tail(o), Tail(m))}
          ELSE {})
         \cup (IF o # << >>
               THEN {<<Part("removed", Head(o))>> \o d :
                        d \in EditScripts(Tail(o), m)}
               ELSE {})
         \cup (IF m # << >>
               THEN {<<Part("added", Head(m))>> \o d :
                        d \in {e \in EditScripts(o, Tail(m)) :
                                  e = << >> \/ ~e[1].removed}}
               ELSE {})

\* the number of tokens an edit script keeps
Kept(script) == Len(SelectSeq(script, LAMBDA e : ~e.added /\ ~e.removed))

RECURSIVE MergeParts(_, _)
\* neighbouring entries of one kind joined into one part; removals may also
\* arrive as parts of their own (the "multiple consecutive removals" the
\* callers provide for)
MergeParts(script, removalsApart) ==
    IF Len(script) <= 1 THEN script
    ELSE LET rest == MergeParts(Tail(script), removalsApart)
             a == Head(script)
             b == Head(rest)
         IN IF a.added = b.added /\ a.removed = b.removed
                 /\ ~(a.removed /\ removalsApart)
            THEN <<[a EXCEPT !.value = @ \o b.value]>> \o Tail(rest)
            ELSE <<a>> \o rest

\* DiffLines without the shortest-script condition: any edit script
DiffLinesAnyScript(originalText, modifiedText) ==
    {MergeParts(d, apart) :
        d \in EditScripts(Lines(originalText), Lines(modifiedText)),
        apart \in BOOLEAN}

\* the part lists diffLines(originalText, modifiedText) may return
DiffLines(originalText, modifiedText) ==
    LET o == Lines(originalText)
        m == Lines(modifiedText)
    IN {MergeParts(d, apart) :
           d \in {e \in EditScripts(o, m) : Kept(e) = LcsLength(o, m)},
           apart \in BOOLEAN}

----------------------------------------------------------------------------
(* buildSegments of the review dialog *)

\* one DiffSegment
Segment(kind, original, modified) ==
    [kind |-> kind, original |-> original, modified |-> modified,
     accepted |-> TRUE]

\* one iteration of the loop over the parts
SegmentStep(acc, part) ==
    LET pending == acc.pendingRemoval
    IN IF part.added THEN
           IF pending.present
           THEN [segments |-> Append(acc.segments,
                                     Segment("replace", pending.text, part.value)),
                 pendingRemoval |-> NoPending]
           ELSE [acc EXCEPT
                   !.segments = Append(@, Segment("add", << >>, part.value))]
       ELSE IF part.removed THEN
           [acc EXCEPT
              !.pendingRemoval =
                  IF pending.present
                  THEN [pending EXCEPT !.text = @ \o part.value]
                  ELSE [NoPending EXCEPT !.present = TRUE, !.text = part.value]]
       ELSE
           LET flushed ==
                 IF pending.present
                 THEN Append(acc.segments, Segment("remove", pending.text, << >>))
                 ELSE acc.segments
           IN [segments |-> Append(flushed,
                                   Segment("context", part.value, part.value)),
               pendingRemoval |-> NoPending]

RECURSIVE SegmentLoopSplitsReplace(_, _)
\* SegmentLoop that does not collapse: an added part behind a pending removal
\* pushes a remove segment and an add segment
SegmentLoopSplitsReplace(acc, parts) ==
    IF parts = << >> THEN acc
    ELSE LET part == Head(parts)
             pending == acc.pendingRemoval
         IN SegmentLoopSplitsReplace(
                IF part.added /\ pending.present
                THEN [segments |-> acc.segments
                                     \o <<Segment("remove", pending.text, << >>),
                                          Segment("add", << >>, part.value)>>,
                      pendingRemoval |-> NoPending]
                ELSE SegmentStep(acc, part),
                Tail(parts))

RECURSIVE SegmentLoop(_, _)
\* for (const part of parts) { ... }
SegmentLoop(acc, parts) ==
    IF parts = << >> THEN acc
    ELSE SegmentLoop(SegmentStep(acc, Head(parts)), Tail(parts))

\* BuildSegments without the flush after the loop: a removal at the end of
\* the parts is lost
BuildSegmentsNoFlush(parts) ==
    SegmentLoop([segments |-> << >>, pendingRemoval |-> NoPending],
                parts).segments

\* buildSegments(originalText, modifiedText), given
\* parts = diffLines(originalText, modifiedText)
BuildSegments(parts) ==
    LET looped == SegmentLoop([segments |-> << >>,
                               pendingRemoval |-> NoPending], parts)
    IN IF looped.pendingRemoval.present
       THEN Append(looped.segments,
                   Segment("remove", looped.pendingRemoval.text, << >>))
       ELSE looped.segments

----------------------------------------------------------------------------
(* The bulk edit of acceptAll *)

\* ValidPositions without the upper bound on s.to
ValidPositionsNoUpper(s, docLength) ==
    /\ s.from >= 0 /\ s.to >= 0
    /\ s.from <= docLength
    /\ s.from <= s.to

\* s.from >= 0 && s.to >= 0 && s.from <= docLength && s.to <= docLength
\* && s.from <= s.to
ValidPositions(s, docLength) ==
    /\ s.from >= 0 /\ s.to >= 0
    /\ s.from <= docLength /\ s.to <= docLength
    /\ s.from <= s.to

RECURSIVE InsertSorted(_, _)
\* s placed behind every element whose from is not below its own
InsertSorted(s, sorted) ==
    IF sorted = << >> THEN <<s>>
    ELSE IF Head(sorted).from >= s.from
         THEN <<Head(sorted)>> \o InsertSorted(s, Tail(sorted))
         ELSE <<s>> \o sorted

RECURSIVE SortDescending(_)
\* [...validSuggestions].sort((a, b) => b.from - a.from), a stable sort
SortDescending(suggs) ==
    IF suggs = << >> THEN << >>
    ELSE InsertSorted(suggs[Len(suggs)],
                      SortDescending(SubSeq(suggs, 1, Len(suggs) - 1)))

\* the text of the insertions of the specs at position p, in spec order
InsertedAt(specs, p) ==
    Concat([i \in 1..Len(specs) |->
              IF specs[i].from = p /\ specs[i].to = p
              THEN specs[i].insert ELSE << >>])

\* view.dispatch({changes: specs}) on text: every spec's positions refer to
\* the text before the transaction (ChangeSet.of); defined for specs whose
\* ranges do not overlap
ApplyChanges(text, specs) ==
    LET len == Len(text)
        Covering(p) == {i \in 1..Len(specs) :
                           specs[i].from = p /\ specs[i].to > p}
        rest[k \in 0..len] ==
            \* rest[k] is the new text from old position len - k on
            LET p == len - k
            IN IF k = 0 THEN InsertedAt(specs, p)
               ELSE IF Covering(p) # {}
                    THEN LET c == specs[CHOOSE i \in Covering(p) : TRUE]
                         IN InsertedAt(specs, p) \o c.insert
                                \o rest[len - Min(c.to, len)]
                    ELSE InsertedAt(specs, p) \o <<text[p + 1]>> \o rest[k - 1]
    IN rest[len]

----------------------------------------------------------------------------
(* State *)

VARIABLES
    doc,                 \* view.state.doc
    suggestions,         \* SuggestionState.suggestions
    proposedTitle,       \* SuggestionState.proposedTitle
    currentTitle,        \* SuggestionState.currentTitle
    resolveCallback,     \* SuggestionState.resolveCallback
    titleAccepted,       \* module variable titleAccepted
    titleRejected,       \* module variable titleRejected
    storedProposedTitle, \* module variable storedProposedTitle
    sessions,            \* promises showInlineSuggestions has returned
    calls,               \* per review, the outcomes its callback was invoked with
    fromBuild,           \* the suggestions shown last came from buildSuggestions
    edits,               \* document edits made by the user
    decision,            \* what the user decided about the title of this review
    modal,               \* the DiffReviewModal instance: its fields
    promise,             \* the values the promise of openWithPromise got
    notices,             \* the notices shown to the user, hidden ones included
    request,             \* the formatSelectionWithAI call awaiting the model
    views,               \* per editor view, its document and suggestion field
    currentView,         \* module variable currentView
    data,                \* the ChatsData object of DEFAULT_CHATS_DATA
    widget,              \* the InlinePromptWidget instance: its fields
    last                 \* the operation that ran last

vars == <<doc, suggestions, proposedTitle, currentTitle, resolveCallback,
          titleAccepted, titleRejected, storedProposedTitle, sessions, calls,
          fromBuild, edits, decision, modal, promise, notices, request,
          views, currentView, data, widget, last>>

\* the editor, the suggestion field and the title variables
reviewVars == <<doc, suggestions, proposedTitle, currentTitle, resolveCallback,
                titleAccepted, titleRejected, storedProposedTitle, sessions,
                calls, fromBuild, edits, decision>>

\* the review dialog
dialogVars == <<modal, promise>>

\* the format command
formatVars == <<notices, request>>

\* the editor views
viewVars == <<views, currentView>>

\* the chat storage
chatVars == <<data>>

\* the inline prompt
promptVars == <<widget>>

\* the components beside the one-view review, the dialog and the command
restVars == <<viewVars, chatVars, promptVars>>

\* no DiffReviewModal was constructed
NoModal ==
    [screen |-> "none", segments |-> << >>, titleAccepted |-> TRUE,
     resolve |-> FALSE, currentTitle |-> Undefined, proposedTitle |-> Undefined]
NoDialog == modal = NoModal /\ promise = << >>

\* no format command is running
NoRequest == [pending |-> FALSE, selection |-> << >>, selectionFrom |-> 0,
              selectionTo |-> 0]
NoFormat == notices = << >> /\ request = NoRequest

\* "let currentView: EditorView | null = null"
NoView == 0
\* no view but the one of the review was created
NoViews == views = << >> /\ currentView = NoView

\* chatId values: "string | null"
Null == "null"
\* DEFAULT_CHATS_DATA
DEFAULT_CHATS_DATA == [chats |-> << >>, currentChatId |-> Null]
\* no ChatStorage was used
NoChats == data = DEFAULT_CHATS_DATA

\* no InlinePromptWidget was constructed
NoWidget ==
    [screen |-> "none", value |-> "", isDropdownOpen |-> FALSE,
     selectedIndex |-> -1, resolved |-> << >>]
NoPrompt == widget = NoWidget

\* view.state.field(suggestionStateField)
FieldState ==
    [suggestions |-> suggestions, proposedTitle |-> proposedTitle,
     currentTitle |-> currentTitle, resolveCallback |-> resolveCallback]

\* the three module variables that track the title
TitleState ==
    [titleAccepted |-> titleAccepted, titleRejected |-> titleRejected,
     storedProposedTitle |-> storedProposedTitle]

\* "Reset title state"
ResetTitleState ==
    [titleAccepted |-> FALSE, titleRejected |-> FALSE,
     storedProposedTitle |-> Undefined]

\* the outcomes a callback is invoked with
Outcome(text, renameTo) == [null |-> FALSE, text |-> text, renameTo |-> renameTo]
NullResult == [null |-> TRUE, text |-> << >>, renameTo |-> Undefined]

\* resolveCallback(outcome), recorded
Invoke(log, callback, outcome) == [log EXCEPT ![callback] = Append(@, outcome)]

\* the decision taken on a pending title and the operation that took it
Decided(kind, title, by) == [kind |-> kind, title |-> title, by |-> by]
\* no title was decided on in this review
NoDecision == Decided("none", Undefined, "none")

\* no suggestion id (an operation that takes none)
NoId == << >>

\* no document change (an operation that edits nothing)
NoChange == Change(0, 0, << >>)

\* the record of an operation: its name and id, the change it dispatched, how
\* it ended, and how many suggestions were live and which title was pending
\* when it began
Ran(op, id, change, how) ==
    [op |-> op, id |-> id, change |-> change, how |-> how,
     live |-> Len(suggestions), title |-> proposedTitle]

\* the new state of the field, the title variables and the call log
Assign(state, title, log) ==
    /\ suggestions' = state.suggestions
    /\ proposedTitle' = state.proposedTitle
    /\ currentTitle' = state.currentTitle
    /\ resolveCallback' = state.resolveCallback
    /\ titleAccepted' = title.titleAccepted
    /\ titleRejected' = title.titleRejected
    /\ storedProposedTitle' = title.storedProposedTitle
    /\ calls' = log
    /\ \A s \in DOMAIN log : Len(log[s]) <= MaxCalls

\* CheckAndResolve without suggestions.length === 0: it resolves while
\* suggestions are live
CheckAndResolveIgnoresLive(state, text, title, log) ==
    IF ~Truthy(state.proposedTitle) /\ state.resolveCallback # NoCallback
    THEN [title |-> ResetTitleState,
          log |-> Invoke(log, state.resolveCallback,
                         Outcome(text,
                                 IF title.titleAccepted
                                 THEN title.storedProposedTitle
                                 ELSE Undefined))]
    ELSE [title |-> title, log |-> log]

\* CheckAndResolve without renameTo: the accepted title is not reported
CheckAndResolveForgetsTitle(state, text, title, log) ==
    IF Len(state.suggestions) = 0 /\ ~Truthy(state.proposedTitle)
          /\ state.resolveCallback # NoCallback
    THEN [title |-> ResetTitleState,
          log |-> Invoke(log, state.resolveCallback, Outcome(text, Undefined))]
    ELSE [title |-> title, log |-> log]

\* checkAndResolve(view): the title variables and the call log after it
CheckAndResolve(state, text, title, log) ==
    IF Len(state.suggestions) = 0 /\ ~Truthy(state.proposedTitle)
          /\ state.resolveCallback # NoCallback
    THEN [title |-> ResetTitleState,
          log |-> Invoke(log, state.resolveCallback,
                         Outcome(text,
                                 IF title.titleAccepted
                                 THEN title.storedProposedTitle
                                 ELSE Undefined))]
    ELSE [title |-> title, log |-> log]

Init ==
    /\ doc = InitialDoc
    /\ suggestions = EmptyState.suggestions
    /\ proposedTitle = EmptyState.proposedTitle
    /\ currentTitle = EmptyState.currentTitle
    /\ resolveCallback = EmptyState.resolveCallback
    /\ titleAccepted = FALSE
    /\ titleRejected = FALSE
    /\ storedProposedTitle = Undefined
    /\ sessions = 0
    /\ calls = [s \in 1..MaxSessions |-> << >>]
    /\ fromBuild = FALSE
    /\ edits = 0
    /\ decision = NoDecision
    /\ NoDialog
    /\ NoFormat
    /\ NoViews
    /\ NoChats
    /\ NoPrompt
    /\ last = [op |-> "init", id |-> NoId, change |-> NoChange,
               how |-> "done", live |-> 0, title |-> Undefined]

----------------------------------------------------------------------------
(* Inputs *)

\* the ids operations are invoked with: those of the shown suggestions, live
\* or not any more
OperationIds == {SuggestionId(n) : n \in 0..(MaxSugg - 1)}

\* the ranges a caller may hand over for a document of length len: every
\* range of the document, and ranges that start below 0, end past the
\* document, lie past it or are reversed
SuppliedRanges(len) ==
    {r \in (0..len) \X (0..len) : r[1] <= r[2]}
        \cup {<<-1, 1>>, <<1, len + 1>>, <<len + 1, len + 1>>, <<1, 0>>}

\* the n-th suggestion of a caller-supplied list
SuppliedSuggestions(text, n) ==
    {[id |-> SuggestionId(n), from |-> r[1], to |-> r[2],
      originalText |-> IF 0 <= r[1] /\ r[1] <= r[2] /\ r[2] <= Len(text)
                       THEN SubSeq(text, r[1] + 1, r[2]) ELSE << >>,
      suggestedText |-> t] :
        r \in SuppliedRanges(Len(text)), t \in SuggestedTexts}

\* two ranges that share no character and do not lie inside one another
Apart(a, b) == a.to <= b.from \/ b.to <= a.from

RECURSIVE SuppliedLists(_, _)
\* the lists of exactly n suggestions a caller hands over: distinct ids, and
\* the ranges that lie in the document apart from each other
SuppliedLists(text, n) ==
    IF n = 0 THEN {<< >>}
    ELSE {Append(l, s) :
            <<l, s>> \in
               {p \in SuppliedLists(text, n - 1)
                        \X SuppliedSuggestions(text, n - 1) :
                   \A i \in 1..Len(p[1]) :
                       (ValidPositions(p[1][i], Len(text))
                            /\ ValidPositions(p[2], Len(text)))
                           => Apart(p[1][i], p[2])}}

\* what diffLines can return: parts with text in them, an added part never
\* next to another added part nor before a removed part, a context part never
\* next to another context part
DiffLinesShaped(changes) ==
    \A i \in 1..(Len(changes) - 1) :
        LET a == changes[i]
            b == changes[i + 1]
        IN /\ ~(a.added /\ (b.added \/ b.removed))
           /\ ~(~a.added /\ ~a.removed /\ ~b.added /\ ~b.removed)

PartLists ==
    {changes \in UNION {[1..n -> {Part(k, v) : k \in PartKinds, v \in PartValues}] :
                           n \in 1..MaxParts} :
        DiffLinesShaped(changes)}

----------------------------------------------------------------------------
(* Actions *)

\* showInlineSuggestions(view, suggs, {proposedTitle, currentTitle})
Show(suggs, proposed, current, built) ==
    LET effectiveProposedTitle ==
            IF Truthy(proposed) /\ Trim(proposed) # ""
                  /\ Trim(proposed) # (IF current = Undefined THEN Undefined
                                       ELSE Trim(current))
            THEN Trim(proposed) ELSE Undefined
        value == [suggestions |-> suggs,
                  proposedTitle |-> effectiveProposedTitle,
                  currentTitle |-> current,
                  resolveCallback |-> sessions + 1]
    IN /\ sessions' = sessions + 1
       /\ Assign(Update(FieldState, SetSuggestionsEffect(value), << >>,
                        Len(doc), Len(doc)),
                 ResetTitleState, calls)
       /\ fromBuild' = built
       /\ decision' = NoDecision
       /\ UNCHANGED <<doc, edits>>

\* a caller shows a list of its own
ShowInlineSuggestions ==
    /\ sessions < MaxSessions
    /\ \E n \in 0..MaxSugg : \E suggs \in SuppliedLists(doc, n) :
       \E proposed \in ProposedTitleInputs, current \in CurrentTitleInputs :
           /\ Show(suggs, proposed, current, FALSE)
           /\ UNCHANGED <<dialogVars, formatVars, restVars>>
           /\ last' = Ran("showInlineSuggestions", NoId, NoChange, "done")

\* formatSelectionWithAI once the model has answered: the selection was
\* captured as [selectionFrom, selectionTo) before the call
FormatSelection ==
    /\ sessions < MaxSessions
    /\ \E changes \in PartLists :
       \E selectionFrom \in 0..Len(doc), current \in CurrentTitleInputs :
           LET selection == OriginalOf(changes)
               content == ModifiedOf(changes)
               selectionTo == selectionFrom + Len(selection)
               built == BuildSuggestions(changes, selectionFrom, selectionTo)
           IN /\ Len(selection) > 0
              /\ content # selection
              /\ ~(selectionTo > Len(doc))
              /\ Len(built) # 0
              /\ Show(built, Undefined, current, TRUE)
              /\ UNCHANGED <<dialogVars, formatVars, restVars>>
              /\ last' = Ran("formatSelection", NoId, NoChange, "done")

\* the user edits the document: view.dispatch({changes: c}) with no effect
UserChange(c) ==
    LET newDoc == ApplyChanges(doc, <<c>>)
    IN /\ DocChanged(c)
       /\ doc' = newDoc
       /\ edits' = edits + 1
       /\ Assign(Update(FieldState, NoEffect, <<c>>, Len(doc), Len(newDoc)),
                 TitleState, calls)
       /\ UNCHANGED <<dialogVars, formatVars, restVars>>
       /\ last' = Ran("documentChange", NoId, c, "done")
       /\ UNCHANGED <<sessions, fromBuild, decision>>

\* the edits of a user who replaces any range by one of the typed texts
DocumentChange ==
    \E from \in 0..Len(doc) : \E to \in from..Len(doc) : \E insert \in TypedTexts :
        /\ sessions > 0
        /\ edits < MaxEdits
        /\ Len(doc) - (to - from) + Len(insert) <= MaxDoc
        /\ UserChange(Change(from, to, insert))

\* RejectSuggestion without checkAndResolve(view)
RejectSuggestionNoResolve(id) ==
    /\ Assign(Update(FieldState, RejectSuggestionEffect(id), << >>,
                     Len(doc), Len(doc)),
              TitleState, calls)
    /\ UNCHANGED <<doc, sessions, fromBuild, edits, decision>>

\* rejectSuggestion(view, id): what it does to the view and the callback
RejectSuggestion(id) ==
    LET state == Update(FieldState, RejectSuggestionEffect(id), << >>,
                        Len(doc), Len(doc))
        resolved == CheckAndResolve(state, doc, TitleState, calls)
    IN /\ Assign(state, resolved.title, resolved.log)
       /\ UNCHANGED <<doc, sessions, fromBuild, edits, decision>>

\* the reject button of a suggestion, or any later use of it
RejectOne(id) ==
    /\ RejectSuggestion(id)
    /\ UNCHANGED <<dialogVars, formatVars, restVars>>
    /\ last' = Ran("rejectOne", id, NoChange, "done")

\* InvalidPositions without the upper bound on suggestion.to
InvalidPositionsNoUpper(suggestion, docLength) ==
    \/ suggestion.from < 0 \/ suggestion.to < 0
    \/ suggestion.from > docLength
    \/ suggestion.from > suggestion.to

\* "Validate positions before applying": the test that turns an accept into
\* a reject
InvalidPositions(suggestion, docLength) ==
    \/ suggestion.from < 0 \/ suggestion.to < 0
    \/ suggestion.from > docLength \/ suggestion.to > docLength
    \/ suggestion.from > suggestion.to

\* AcceptChange without the end of the range: the suggested text is inserted
\* in front of the text it should replace
AcceptChangeInserts(suggestion) ==
    Change(suggestion.from, suggestion.from, suggestion.suggestedText)

\* the change acceptSuggestion dispatches: {from, to, insert: suggestedText}
AcceptChange(suggestion) ==
    Change(suggestion.from, suggestion.to, suggestion.suggestedText)

\* acceptSuggestion(view, id)
AcceptSuggestion(id) ==
    IF ~HasId(suggestions, id)
    THEN /\ UNCHANGED <<dialogVars, formatVars, restVars>>
         /\ last' = Ran("acceptOne", id, NoChange, "missing")
         /\ UNCHANGED <<doc, suggestions, proposedTitle, currentTitle,
                        resolveCallback, titleAccepted, titleRejected,
                        storedProposedTitle, sessions, calls, fromBuild, edits,
                        decision>>
    ELSE LET suggestion == FindId(suggestions, id)
             docLength == Len(doc)
         IN IF InvalidPositions(suggestion, docLength)
            THEN LET state == Update(FieldState, RejectSuggestionEffect(id),
                                     << >>, docLength, docLength)
                     resolved == CheckAndResolve(state, doc, TitleState, calls)
                 IN /\ Assign(state, resolved.title, resolved.log)
                    /\ UNCHANGED <<dialogVars, formatVars, restVars>>
                    /\ last' = Ran("acceptOne", id, NoChange, "rejected")
                    /\ UNCHANGED <<doc, sessions, fromBuild, edits, decision>>
            ELSE LET c == AcceptChange(suggestion)
                     newDoc == ApplyChanges(doc, <<c>>)
                     state == Update(FieldState, AcceptSuggestionEffect(id),
                                     <<c>>, docLength, Len(newDoc))
                     resolved == CheckAndResolve(state, newDoc, TitleState, calls)
                 IN /\ doc' = newDoc
                    /\ Assign(state, resolved.title, resolved.log)
                    /\ UNCHANGED <<dialogVars, formatVars, restVars>>
                    /\ last' = Ran("acceptOne", id, c, "applied")
                    /\ UNCHANGED <<sessions, fromBuild, edits, decision>>

\* the accept button of a suggestion, or any later use of it, while the
\* document stays within MaxDoc
AcceptOne(id) == AcceptSuggestion(id) /\ Len(doc') <= MaxDoc

\* the change specs acceptAllSuggestions dispatches
AcceptAllChanges(suggs, docLength) ==
    LET validSuggestions == SelectSeq(suggs, LAMBDA s : ValidPositions(s, docLength))
        sortedSuggestions == SortDescending(validSuggestions)
    IN [i \in 1..Len(sortedSuggestions) |->
          Change(sortedSuggestions[i].from, sortedSuggestions[i].to,
                 sortedSuggestions[i].suggestedText)]

\* AcceptAllRenameTo without "if (proposedTitle)": a title that is pending is
\* not accepted by the bulk operation
AcceptAllRenameToIgnoresPending(proposed, title) ==
    IF title.titleAccepted
    THEN (IF title.storedProposedTitle # Undefined
          THEN title.storedProposedTitle ELSE proposed)
    ELSE Undefined

\* the renameTo acceptAllSuggestions resolves with: a pending title is
\* accepted first, then titleAccepted ? (storedProposedTitle ?? proposedTitle)
AcceptAllRenameTo(proposed, title) ==
    LET accepted == IF Truthy(proposed) THEN TRUE ELSE title.titleAccepted
        stored == IF Truthy(proposed) THEN proposed
                  ELSE title.storedProposedTitle
    IN IF accepted
       THEN (IF stored # Undefined THEN stored ELSE proposed)
       ELSE Undefined

\* acceptAllSuggestions(view)
AcceptAllSuggestions ==
    LET state == FieldState
        changes == AcceptAllChanges(state.suggestions, Len(doc))
        newDoc == ApplyChanges(doc, changes)
        newState == Update(state, AcceptAllEffect, changes, Len(doc), Len(newDoc))
        renameTo == AcceptAllRenameTo(state.proposedTitle, TitleState)
    IN /\ doc' = newDoc
       /\ Assign(newState, ResetTitleState,
                 IF state.resolveCallback # NoCallback
                 THEN Invoke(calls, state.resolveCallback,
                             Outcome(newDoc, renameTo))
                 ELSE calls)
       /\ decision' = IF Truthy(state.proposedTitle)
                      THEN Decided("accepted", state.proposedTitle, "acceptAll")
                      ELSE decision
       /\ UNCHANGED <<dialogVars, formatVars, restVars>>
       /\ last' = Ran("acceptAll", NoId, NoChange, "done")
       /\ UNCHANGED <<sessions, fromBuild, edits>>

\* the accept-all button while the document stays within MaxDoc
AcceptAll == AcceptAllSuggestions /\ Len(doc') <= MaxDoc

\* rejectAllSuggestions(view)
RejectAll ==
    LET state == FieldState
        newState == Update(state, RejectAllEffect, << >>, Len(doc), Len(doc))
    IN /\ Assign(newState, ResetTitleState,
                 IF state.resolveCallback # NoCallback
                 THEN Invoke(calls, state.resolveCallback, NullResult)
                 ELSE calls)
       /\ UNCHANGED <<dialogVars, formatVars, restVars>>
       /\ last' = Ran("rejectAll", NoId, NoChange, "done")
       /\ UNCHANGED <<doc, sessions, fromBuild, edits, decision>>

\* the setSuggestionsEffect both title actions dispatch
ClearProposedTitle(state) ==
    SetSuggestionsEffect([suggestions |-> state.suggestions,
                          proposedTitle |-> Undefined,
                          currentTitle |-> state.currentTitle,
                          resolveCallback |-> state.resolveCallback])

\* acceptTitle(view)
AcceptTitle ==
    LET state == FieldState
        title == [titleAccepted |-> TRUE, titleRejected |-> FALSE,
                  storedProposedTitle |-> state.proposedTitle]
        newState == Update(state, ClearProposedTitle(state), << >>,
                           Len(doc), Len(doc))
        resolved == CheckAndResolve(newState, doc, title, calls)
    IN /\ Assign(newState, resolved.title, resolved.log)
       /\ decision' = IF Truthy(state.proposedTitle)
                      THEN Decided("accepted", state.proposedTitle, "acceptTitle")
                      ELSE decision
       /\ UNCHANGED <<dialogVars, formatVars, restVars>>
       /\ last' = Ran("acceptTitle", NoId, NoChange, "done")
       /\ UNCHANGED <<doc, sessions, fromBuild, edits>>

\* rejectTitle(view)
RejectTitle ==
    LET title == [titleAccepted |-> FALSE, titleRejected |-> TRUE,
                  storedProposedTitle |-> Undefined]
        state == FieldState
        newState == Update(state, ClearProposedTitle(state), << >>,
                           Len(doc), Len(doc))
        resolved == CheckAndResolve(newState, doc, title, calls)
    IN /\ Assign(newState, resolved.title, resolved.log)
       /\ decision' = IF Truthy(state.proposedTitle)
                      THEN Decided("rejected", state.proposedTitle, "rejectTitle")
                      ELSE decision
       /\ UNCHANGED <<dialogVars, formatVars, restVars>>
       /\ last' = Ran("rejectTitle", NoId, NoChange, "done")
       /\ UNCHANGED <<doc, sessions, fromBuild, edits>>

\* clearSuggestions(view)
ClearSuggestions ==
    /\ Assign(Update(FieldState, RejectAllEffect, << >>, Len(doc), Len(doc)),
              TitleState, calls)
    /\ UNCHANGED <<dialogVars, formatVars, restVars>>
    /\ last' = Ran("clearSuggestions", NoId, NoChange, "done")
    /\ UNCHANGED <<doc, sessions, fromBuild, edits, decision>>

Next ==
    \/ ShowInlineSuggestions
    \/ FormatSelection
    \/ DocumentChange
    \/ \E id \in OperationIds : AcceptOne(id)
    \/ \E id \in OperationIds : RejectOne(id)
    \/ AcceptAll
    \/ RejectAll
    \/ AcceptTitle
    \/ RejectTitle
    \/ ClearSuggestions

Spec == Init /\ [][Next]_vars

----------------------------------------------------------------------------
(* buildSuggestions and buildSegments on their own: a call with two texts and
   a range, then the function applied to the line diff of the texts *)

\* the texts that are diffed
DiffedTexts == UNION {[1..n -> TextChars] : n \in 0..MaxText}

\* the pairs (originalText, modifiedText)
DiffedPairs == (DiffedTexts \X DiffedTexts) \cup {<<HelloWorld, HelloBraveWorld>>}

\* the ranges (selectionStart, selectionEnd) a caller gives with a text: any
\* range, as long as the text or not
BuildRanges(originalText) ==
    {r \in (0..MaxStart) \X (0..(MaxStart + MaxText)) : r[1] <= r[2]}
        \cup {<<start, start + Len(originalText)>> : start \in 0..MaxStart}

\* a call that has not run yet
Call(originalText, modifiedText, changes, selectionStart, selectionEnd) ==
    [op |-> "call", originalText |-> originalText,
     modifiedText |-> modifiedText, changes |-> changes,
     selectionStart |-> selectionStart, selectionEnd |-> selectionEnd,
     result |-> << >>]

BuildInit ==
    /\ doc = InitialDoc
    /\ suggestions = EmptyState.suggestions
    /\ proposedTitle = EmptyState.proposedTitle
    /\ currentTitle = EmptyState.currentTitle
    /\ resolveCallback = EmptyState.resolveCallback
    /\ titleAccepted = FALSE
    /\ titleRejected = FALSE
    /\ storedProposedTitle = Undefined
    /\ sessions = 0
    /\ calls = [s \in 1..MaxSessions |-> << >>]
    /\ fromBuild = FALSE
    /\ edits = 0
    /\ decision = NoDecision
    /\ NoDialog
    /\ NoFormat
    /\ NoViews
    /\ NoChats
    /\ NoPrompt
    /\ \E pair \in DiffedPairs :
       \E changes \in DiffLines(pair[1], pair[2]) :
       \E range \in BuildRanges(pair[1]) :
           last = Call(pair[1], pair[2], changes, range[1], range[2])

\* buildSuggestions(originalText, modifiedText, selectionStart, selectionEnd)
Build ==
    /\ last.op = "call"
    /\ last' = [last EXCEPT
                  !.op = "buildSuggestions",
                  !.result = BuildSuggestions(last.changes, last.selectionStart,
                                              last.selectionEnd)]
    /\ UNCHANGED <<reviewVars, dialogVars, formatVars, restVars>>

\* buildSegments(originalText, modifiedText)
Segments ==
    /\ last.op = "call"
    /\ last' = [last EXCEPT !.op = "buildSegments",
                            !.result = BuildSegments(last.changes)]
    /\ UNCHANGED <<reviewVars, dialogVars, formatVars, restVars>>

BuildNext == Build \/ Segments

BuildSpec == BuildInit /\ [][BuildNext]_vars

----------------------------------------------------------------------------
(* The scenarios: one review of the document "hello world" with no title; the
   user accepts, rejects and types in front of or behind the text *)

Earth == <<"e", "a", "r", "t", "h">>

\* the ranges of the suggestions: "hello", "world", the point after "hello",
\* and a reversed range
ScenarioRanges == {<<0, 5>>, <<6, 11>>, <<5, 5>>, <<1, 0>>}

\* the n-th suggestion of a scenario
ScenarioSuggestions(n) ==
    {[id |-> SuggestionId(n), from |-> r[1], to |-> r[2],
      originalText |-> SubSeq(HelloWorld, r[1] + 1, r[2]),
      suggestedText |-> t] :
        r \in ScenarioRanges, t \in {<< >>, Earth}}

RECURSIVE ScenarioLists(_)
\* the lists of exactly n suggestions, apart from each other
ScenarioLists(n) ==
    IF n = 0 THEN {<< >>}
    ELSE {Append(p[1], p[2]) :
            p \in {q \in ScenarioLists(n - 1) \X ScenarioSuggestions(n - 1) :
                      \A i \in 1..Len(q[1]) : Apart(q[1][i], q[2])}}

\* what the user types
ScenarioTyped == {<<"u">>, <<"u", "v">>}

ScenarioInit ==
    /\ doc = HelloWorld
    /\ suggestions = EmptyState.suggestions
    /\ proposedTitle = EmptyState.proposedTitle
    /\ currentTitle = EmptyState.currentTitle
    /\ resolveCallback = EmptyState.resolveCallback
    /\ titleAccepted = FALSE
    /\ titleRejected = FALSE
    /\ storedProposedTitle = Undefined
    /\ sessions = 0
    /\ calls = [s \in 1..MaxSessions |-> << >>]
    /\ fromBuild = FALSE
    /\ edits = 0
    /\ decision = NoDecision
    /\ NoDialog
    /\ NoFormat
    /\ NoViews
    /\ NoChats
    /\ NoPrompt
    /\ last = [op |-> "init", id |-> NoId, change |-> NoChange,
               how |-> "done", live |-> 0, title |-> Undefined]

\* showInlineSuggestions(view, suggs) on the untouched document
ScenarioShow ==
    /\ sessions = 0
    /\ \E n \in 1..MaxSugg : \E suggs \in ScenarioLists(n) :
           /\ Show(suggs, Undefined, Undefined, FALSE)
           /\ UNCHANGED <<dialogVars, formatVars, restVars>>
           /\ last' = Ran("showInlineSuggestions", NoId, NoChange, "done")

\* the user types at the start or at the end of the document
ScenarioType ==
    /\ sessions > 0
    /\ edits < MaxEdits
    /\ \E at \in {0, Len(doc)} : \E insert \in ScenarioTyped :
           UserChange(Change(at, at, insert))

ScenarioNext ==
    \/ ScenarioShow
    \/ ScenarioType
    \/ \E id \in OperationIds : AcceptSuggestion(id)
    \/ \E id \in OperationIds : RejectOne(id)
    \/ AcceptAllSuggestions
    \/ RejectAll

ScenarioSpec == ScenarioInit /\ [][ScenarioNext]_vars

----------------------------------------------------------------------------
(* The review dialog: reviewDiff(app, params) constructs one
   DiffReviewModal and opens it; the user toggles, applies, cancels, closes *)

\* params.originalText and params.modifiedText
DialogTexts == UNION {[1..n -> TextChars] : n \in 0..(MaxText - 1)}

\* BuildResultText with the choice of a remove segment inverted
BuildResultTextKeepsRemoved(segs) ==
    Concat([i \in 1..Len(segs) |->
              LET segment == segs[i]
              IN CASE segment.kind = "context" -> segment.original
                   [] segment.kind = "replace" ->
                        IF segment.accepted THEN segment.modified
                        ELSE segment.original
                   [] segment.kind = "add" ->
                        IF segment.accepted THEN segment.modified ELSE << >>
                   [] segment.kind = "remove" ->
                        IF segment.accepted THEN segment.original ELSE << >>])

\* DiffReviewModal.buildResultText()
BuildResultText(segs) ==
    Concat([i \in 1..Len(segs) |->
              LET segment == segs[i]
              IN CASE segment.kind = "context" -> segment.original
                   [] segment.kind = "replace" ->
                        IF segment.accepted THEN segment.modified
                        ELSE segment.original
                   [] segment.kind = "add" ->
                        IF segment.accepted THEN segment.modified ELSE << >>
                   [] segment.kind = "remove" ->
                        IF segment.accepted THEN << >> ELSE segment.original])

\* DiffReviewModal.onClose(): the modal and the promise after it
OnClose(m, log) ==
    [modal |-> [m EXCEPT !.resolve = FALSE, !.screen = "closed"],
     promise |-> IF m.resolve THEN Append(log, NullResult) ELSE log]

\* CloseWithResult without this.resolve = null
CloseWithResultKeepsResolve(m, log, result) ==
    OnClose(m, IF m.resolve THEN Append(log, result) ELSE log)

\* DiffReviewModal.closeWithResult(result), this.close() included
CloseWithResult(m, log, result) ==
    IF m.resolve
    THEN OnClose([m EXCEPT !.resolve = FALSE], Append(log, result))
    ELSE OnClose(m, log)

\* the constructor of DiffReviewModal
NewModal(segs, currentTitleParam, newTitle) ==
    LET proposed == IF Truthy(newTitle) /\ Trim(newTitle) # ""
                    THEN Trim(newTitle) ELSE Undefined
    IN [screen |-> "new", segments |-> segs, titleAccepted |-> TRUE,
        resolve |-> FALSE, currentTitle |-> currentTitleParam,
        proposedTitle |-> IF Truthy(proposed) /\ Truthy(currentTitleParam)
                               /\ proposed = currentTitleParam
                            THEN Undefined ELSE proposed]

\* the record of a dialog operation: its name and the params of the dialog
Params(op, originalText, modifiedText, currentTitleParam, newTitle) ==
    [op |-> op, originalText |-> originalText, modifiedText |-> modifiedText,
     currentTitle |-> currentTitleParam, newTitle |-> newTitle]

DialogInit ==
    /\ doc = InitialDoc
    /\ suggestions = EmptyState.suggestions
    /\ proposedTitle = EmptyState.proposedTitle
    /\ currentTitle = EmptyState.currentTitle
    /\ resolveCallback = EmptyState.resolveCallback
    /\ titleAccepted = FALSE
    /\ titleRejected = FALSE
    /\ storedProposedTitle = Undefined
    /\ sessions = 0
    /\ calls = [s \in 1..MaxSessions |-> << >>]
    /\ fromBuild = FALSE
    /\ edits = 0
    /\ decision = NoDecision
    /\ NoDialog
    /\ NoFormat
    /\ NoViews
    /\ NoChats
    /\ NoPrompt
    /\ last = Params("init", << >>, << >>, Undefined, Undefined)

\* reviewDiff(app, params): new DiffReviewModal(app, params), then
\* openWithPromise(), which sets resolve and opens the modal
ReviewDiff ==
    /\ modal = NoModal
    /\ \E originalText \in DialogTexts, modifiedText \in DialogTexts :
       \E parts \in DiffLines(originalText, modifiedText) :
       \E current \in CurrentTitleInputs, newTitle \in ProposedTitleInputs :
           /\ modal' = [NewModal(BuildSegments(parts), current, newTitle)
                          EXCEPT !.resolve = TRUE, !.screen = "open"]
           /\ last' = Params("reviewDiff", originalText, modifiedText,
                             current, newTitle)
    /\ UNCHANGED <<reviewVars, promise, formatVars, restVars>>

\* the Keep (accepted) or Skip button of segment i
ToggleSegment(i, accepted) ==
    /\ modal.screen = "open"
    /\ i \in 1..Len(modal.segments)
    /\ modal.segments[i].kind # "context"
    /\ modal' = [modal EXCEPT !.segments[i].accepted = accepted]
    /\ last' = [last EXCEPT !.op = "toggle"]
    /\ UNCHANGED <<reviewVars, promise, formatVars, restVars>>

\* the Keep (accepted) or Skip button of the title
ToggleTitle(accepted) ==
    /\ modal.screen = "open"
    /\ Truthy(modal.proposedTitle)
    /\ modal' = [modal EXCEPT !.titleAccepted = accepted]
    /\ last' = [last EXCEPT !.op = "toggleTitle"]
    /\ UNCHANGED <<reviewVars, promise, formatVars, restVars>>

\* the Apply button
Apply ==
    LET result == Outcome(BuildResultText(modal.segments),
                          IF modal.titleAccepted /\ Truthy(modal.proposedTitle)
                          THEN modal.proposedTitle ELSE Undefined)
        closed == CloseWithResult(modal, promise, result)
    IN /\ modal.screen = "open"
       /\ modal' = closed.modal
       /\ promise' = closed.promise
       /\ last' = [last EXCEPT !.op = "apply"]
       /\ UNCHANGED <<reviewVars, formatVars, restVars>>

\* the Cancel button
Cancel ==
    LET closed == CloseWithResult(modal, promise, NullResult)
    IN /\ modal.screen = "open"
       /\ modal' = closed.modal
       /\ promise' = closed.promise
       /\ last' = [last EXCEPT !.op = "cancel"]
       /\ UNCHANGED <<reviewVars, formatVars, restVars>>

\* the modal is closed from outside its buttons (Escape, the close icon, a
\* click beside it, a later close()): onClose runs
Close ==
    LET closed == OnClose(modal, promise)
    IN /\ modal.screen \in {"open", "closed"}
       /\ modal' = closed.modal
       /\ promise' = closed.promise
       /\ last' = [last EXCEPT !.op = "close"]
       /\ UNCHANGED <<reviewVars, formatVars, restVars>>

DialogNext ==
    \/ ReviewDiff
    \/ \E i \in 1..MaxText : \E accepted \in BOOLEAN : ToggleSegment(i, accepted)
    \/ \E accepted \in BOOLEAN : ToggleTitle(accepted)
    \/ Apply
    \/ Cancel
    \/ Close

DialogSpec == DialogInit /\ [][DialogNext]_vars

----------------------------------------------------------------------------
(* The format command: one run of formatSelectionWithAI, which captures the
   selection, awaits the model while the user may edit, and then shows the
   suggestions or reports why it does not *)

\* the texts of the notices
SelectNotice == "Select text to format before using AI."
RunningNotice == "Formatting selection with AI..."
UnchangedNotice == "AI kept the selection unchanged."
DocChangedNotice == "Document changed while AI was processing. Please try again."
FailureNotice == "Could not format selection. See console for details."

\* the catch block without its Notice
CatchNoticesSilent(log) == log

\* the notices after the catch block: runningNotice.hide(), console.error,
\* new Notice(failure)
CatchNotices(log) == Append(log, FailureNotice)

FormatInit ==
    /\ doc = InitialDoc
    /\ suggestions = EmptyState.suggestions
    /\ proposedTitle = EmptyState.proposedTitle
    /\ currentTitle = EmptyState.currentTitle
    /\ resolveCallback = EmptyState.resolveCallback
    /\ titleAccepted = FALSE
    /\ titleRejected = FALSE
    /\ storedProposedTitle = Undefined
    /\ sessions = 0
    /\ calls = [s \in 1..MaxSessions |-> << >>]
    /\ fromBuild = FALSE
    /\ edits = 0
    /\ decision = NoDecision
    /\ NoDialog
    /\ NoFormat
    /\ NoViews
    /\ NoChats
    /\ NoPrompt
    /\ last = [op |-> "init", id |-> NoId, change |-> NoChange,
               how |-> "done", live |-> 0, title |-> Undefined]

\* formatSelectionWithAI up to its await of the model: the selection
\* [from, to) is captured, or the command ends because it is blank
FormatSelectionWithAI ==
    /\ notices = << >>
    /\ ~request.pending
    /\ \E from \in 0..Len(doc) : \E to \in from..Len(doc) :
           LET selection == SubSeq(doc, from + 1, to)
           IN IF selection = << >>
              THEN /\ notices' = <<SelectNotice>>
                   /\ request' = request
                   /\ last' = Ran("formatSelectionWithAI", NoId, NoChange, "blank")
              ELSE /\ notices' = <<RunningNotice>>
                   /\ request' = [pending |-> TRUE, selection |-> selection,
                                  selectionFrom |-> from, selectionTo |-> to]
                   /\ last' = Ran("formatSelectionWithAI", NoId, NoChange, "awaiting")
    /\ UNCHANGED <<reviewVars, dialogVars, restVars>>

\* the user edits the document while the model is working
EditWhileAwaiting ==
    /\ request.pending
    /\ edits < MaxEdits
    /\ \E from \in 0..Len(doc) : \E to \in from..Len(doc) : \E insert \in TypedTexts :
           /\ Len(doc) - (to - from) + Len(insert) <= MaxDoc
           /\ UserChange(Change(from, to, insert))

\* the model answers: formatSelectionWithAI from runningNotice.hide() to its
\* await of the review; changes is the line diff of the selection and the
\* content of the answer
ModelAnswers ==
    /\ request.pending
    /\ request' = NoRequest
    /\ UNCHANGED <<dialogVars, restVars>>
    /\ \E changes \in PartLists \cup {<<Part("context", request.selection)>>} :
       \E current \in CurrentTitleInputs :
           LET selection == request.selection
               content == ModifiedOf(changes)
               built == BuildSuggestions(changes, request.selectionFrom,
                                         request.selectionTo)
               Ends(notice, how) ==
                   /\ notices' = Append(notices, notice)
                   /\ last' = Ran("modelAnswers", NoId, NoChange, how)
                   /\ UNCHANGED reviewVars
           IN /\ OriginalOf(changes) = selection
              /\ IF content = selection THEN Ends(UnchangedNotice, "unchanged")
                 ELSE IF request.selectionTo > Len(doc)
                      THEN Ends(DocChangedNotice, "docChanged")
                 ELSE IF Len(built) = 0 THEN Ends(UnchangedNotice, "empty")
                 ELSE /\ Show(built, Undefined, current, TRUE)
                      /\ notices' = notices
                      /\ last' = Ran("modelAnswers", NoId, NoChange, "shown")

\* the model call fails: the await throws into the catch block
ModelFails ==
    /\ request.pending
    /\ request' = NoRequest
    /\ notices' = CatchNotices(notices)
    /\ last' = Ran("modelFails", NoId, NoChange, "caught")
    /\ UNCHANGED <<reviewVars, dialogVars, restVars>>

FormatNext ==
    \/ FormatSelectionWithAI
    \/ EditWhileAwaiting
    \/ ModelAnswers
    \/ ModelFails

FormatSpec == FormatInit /\ [][FormatNext]_vars

----------------------------------------------------------------------------
(* formatMarkdownWithAI with formatComments disabled: extractComments, the
   answer of the model, restoreComments. A text is a sequence of tokens: the
   comment delimiters and single characters *)

\* the tokens of the selection: a letter, a dollar sign, "<!--" and "-->"
CommentTokens == {"a", "$", "<!--", "-->"}

\* options.text
CommentTexts == UNION {[1..n -> CommentTokens] : n \in 0..MaxText}

\* `__COMMENT_PLACEHOLDER_${counter}__`
Placeholder(counter) == "__COMMENT_PLACEHOLDER_" \o ToString(counter) \o "__"

\* the first match of /<!--[\s\S]*?-->/ in text: the first "<!--" with a
\* "-->" behind it, up to the nearest "-->"
FirstComment(text) ==
    LET opens == {i \in 1..Len(text) :
                    /\ text[i] = "<!--"
                    /\ \E j \in (i + 1)..Len(text) : text[j] = "-->"}
    IN IF opens = {} THEN [found |-> FALSE, from |-> 0, to |-> 0]
       ELSE LET from == CHOOSE i \in opens : \A k \in opens : i <= k
                closes == {j \in (from + 1)..Len(text) : text[j] = "-->"}
            IN [found |-> TRUE, from |-> from,
                to |-> CHOOSE j \in closes : \A k \in closes : j <= k]

RECURSIVE ExtractFrom(_, _)
\* text.replace(/<!--[\s\S]*?-->/g, ...) from the match numbered counter on
ExtractFrom(text, counter) ==
    LET match == FirstComment(text)
    IN IF ~match.found THEN [textToFormat |-> text, comments |-> << >>]
       ELSE LET rest == ExtractFrom(SubSeq(text, match.to + 1, Len(text)),
                                    counter + 1)
            IN [textToFormat |-> SubSeq(text, 1, match.from - 1)
                                    \o <<Placeholder(counter)>>
                                    \o rest.textToFormat,
                comments |-> <<[placeholder |-> Placeholder(counter),
                                original |-> SubSeq(text, match.from, match.to)]>>
                                \o rest.comments]

\* extractComments(text)
ExtractComments(text) == ExtractFrom(text, 0)

RECURSIVE Substitution(_)
\* what String.prototype.replace(string, replacement) inserts for a
\* replacement string: "$$" stands for one "$" (the other patterns, "$&",
\* "$`", "$'", need characters the tokens do not have)
Substitution(replacement) ==
    IF replacement = << >> THEN << >>
    ELSE IF Len(replacement) >= 2 /\ replacement[1] = "$" /\ replacement[2] = "$"
         THEN <<"$">> \o Substitution(SubSeq(replacement, 3, Len(replacement)))
    ELSE <<Head(replacement)>> \o Substitution(Tail(replacement))

\* result.replace(placeholder, original): the first occurrence is replaced
ReplaceFirst(result, placeholder, original) ==
    LET at == {i \in 1..Len(result) : result[i] = placeholder}
    IN IF at = {} THEN result
       ELSE LET i == CHOOSE j \in at : \A k \in at : j <= k
            IN SubSeq(result, 1, i - 1) \o Substitution(original)
                   \o SubSeq(result, i + 1, Len(result))

RECURSIVE RestoreComments(_, _)
\* restoreComments(formatted, comments)
RestoreComments(formatted, comments) ==
    IF comments = << >> THEN formatted
    ELSE RestoreComments(ReplaceFirst(formatted, Head(comments).placeholder,
                                      Head(comments).original),
                         Tail(comments))

RECURSIVE KeptTokens(_, _, _)
\* the tokens of text from position i on whose positions are in keep
KeptTokens(text, keep, i) ==
    IF i > Len(text) THEN << >>
    ELSE (IF i \in keep THEN <<text[i]>> ELSE << >>) \o KeptTokens(text, keep, i + 1)

\* what the model may answer to textToFormat: the text with any of its
\* tokens left out, behind a letter of its own or not
Responses(textToFormat) ==
    LET shortened == {KeptTokens(textToFormat, keep, 1) :
                        keep \in SUBSET (1..Len(textToFormat))}
    IN shortened \cup {<<"a">> \o r : r \in shortened}

\* a call of formatMarkdownWithAI and how far it got
Formatting(op, text, extracted, response, result) ==
    [op |-> op, text |-> text, textToFormat |-> extracted.textToFormat,
     comments |-> extracted.comments, response |-> response, result |-> result]

CommentInit ==
    /\ doc = InitialDoc
    /\ suggestions = EmptyState.suggestions
    /\ proposedTitle = EmptyState.proposedTitle
    /\ currentTitle = EmptyState.currentTitle
    /\ resolveCallback = EmptyState.resolveCallback
    /\ titleAccepted = FALSE
    /\ titleRejected = FALSE
    /\ storedProposedTitle = Undefined
    /\ sessions = 0
    /\ calls = [s \in 1..MaxSessions |-> << >>]
    /\ fromBuild = FALSE
    /\ edits = 0
    /\ decision = NoDecision
    /\ NoDialog
    /\ NoFormat
    /\ NoViews
    /\ NoChats
    /\ NoPrompt
    /\ \E text \in CommentTexts :
           last = Formatting("call", text,
                             [textToFormat |-> << >>, comments |-> << >>],
                             << >>, << >>)

\* formatMarkdownWithAI({text, formatComments: false}) up to callOllama
SendToModel ==
    /\ last.op = "call"
    /\ last' = Formatting("callOllama", last.text, ExtractComments(last.text),
                          << >>, << >>)
    /\ UNCHANGED <<reviewVars, dialogVars, formatVars, restVars>>

\* the model answers and formatMarkdownWithAI returns. response.trim(),
\* stripCodeFence and escapeWikilinks leave a text of these tokens as it is:
\* it has no white space, no code fence and no bracket
ModelReturns ==
    /\ last.op = "callOllama"
    /\ \E response \in Responses(last.textToFormat) :
           last' = [last EXCEPT
                      !.op = "restoreComments",
                      !.response = response,
                      !.result = RestoreComments(response, last.comments)]
    /\ UNCHANGED <<reviewVars, dialogVars, formatVars, restVars>>

CommentNext == SendToModel \/ ModelReturns

CommentSpec == CommentInit /\ [][CommentNext]_vars

----------------------------------------------------------------------------
(* Several editor views with the extension installed: each has its document
   and its suggestion field; titleAccepted, titleRejected, storedProposedTitle
   and currentView are variables of the module, shared by all views *)

\* the views that are open
MaxViews == 2
\* the reviews started over all views
MaxShows == 2

ViewIds == 1..MaxViews

\* a view: view.state.doc and view.state.field(suggestionStateField)
View(text, field) == [doc |-> text, field |-> field]

\* the variables of the one-view review that the views do not use
oneViewVars == <<doc, suggestions, proposedTitle, currentTitle, resolveCallback,
                 fromBuild, edits>>

\* the lists a caller shows in a view: none, or one suggestion that replaces
\* the first character of the document
ViewLists(text) ==
    {<< >>} \cup {<<s>> : s \in {x \in SuppliedSuggestions(text, 0) :
                                    /\ x.from = 0
                                    /\ x.to = Min(1, Len(text))}}

\* the titles a caller proposes for a view
ViewTitleInputs == {Undefined, "New"}

\* the record of an operation: the view whose control or caller started it,
\* the view it was applied to, and the callback registered in the view of the
\* control when it began
ViewRan(op, v, target, id) ==
    [op |-> op, view |-> v, target |-> target, id |-> id,
     callback |-> views[v].field.resolveCallback]

\* the state after a handler has dispatched to view v: the plugin's
\* update(update) sets currentView = update.view
ViewAssign(v, text, state, title, log) ==
    /\ views' = [views EXCEPT ![v] = View(text, state)]
    /\ currentView' = v
    /\ titleAccepted' = title.titleAccepted
    /\ titleRejected' = title.titleRejected
    /\ storedProposedTitle' = title.storedProposedTitle
    /\ calls' = log
    /\ \A s \in DOMAIN log : Len(log[s]) <= MaxCalls

\* the title decision of the review whose callback is registered in state
ViewDecided(state, kind, by) ==
    IF Truthy(state.proposedTitle) /\ state.resolveCallback # NoCallback
    THEN [decision EXCEPT ![state.resolveCallback] =
              Decided(kind, state.proposedTitle, by)]
    ELSE decision

\* showInlineSuggestions(view, suggs, {proposedTitle, currentTitle}) on view v
ViewShow(v, suggs, proposed, current) ==
    LET effectiveProposedTitle ==
            IF Truthy(proposed) /\ Trim(proposed) # ""
                  /\ Trim(proposed) # (IF current = Undefined THEN Undefined
                                       ELSE Trim(current))
            THEN Trim(proposed) ELSE Undefined
        value == [suggestions |-> suggs,
                  proposedTitle |-> effectiveProposedTitle,
                  currentTitle |-> current,
                  resolveCallback |-> sessions + 1]
        text == views[v].doc
    IN /\ sessions' = sessions + 1
       /\ ViewAssign(v, text,
                     Update(views[v].field, SetSuggestionsEffect(value), << >>,
                            Len(text), Len(text)),
                     ResetTitleState, calls)
       /\ UNCHANGED decision

\* acceptSuggestion(view, id) on view v
ViewAcceptSuggestion(v, id) ==
    LET text == views[v].doc
        field == views[v].field
        docLength == Len(text)
    IN IF ~HasId(field.suggestions, id)
       THEN UNCHANGED <<viewVars, titleAccepted, titleRejected,
                        storedProposedTitle, calls, sessions, decision>>
       ELSE LET suggestion == FindId(field.suggestions, id)
            IN IF InvalidPositions(suggestion, docLength)
               THEN LET state == Update(field, RejectSuggestionEffect(id),
                                        << >>, docLength, docLength)
                        resolved == CheckAndResolve(state, text, TitleState, calls)
                    IN /\ ViewAssign(v, text, state, resolved.title, resolved.log)
                       /\ UNCHANGED <<sessions, decision>>
               ELSE LET c == AcceptChange(suggestion)
                        newDoc == ApplyChanges(text, <<c>>)
                        state == Update(field, AcceptSuggestionEffect(id),
                                        <<c>>, docLength, Len(newDoc))
                        resolved == CheckAndResolve(state, newDoc, TitleState,
                                                    calls)
                    IN /\ ViewAssign(v, newDoc, state, resolved.title,
                                     resolved.log)
                       /\ UNCHANGED <<sessions, decision>>

\* rejectSuggestion(view, id) on view v
ViewRejectSuggestion(v, id) ==
    LET text == views[v].doc
        state == Update(views[v].field, RejectSuggestionEffect(id), << >>,
                        Len(text), Len(text))
        resolved == CheckAndResolve(state, text, TitleState, calls)
    IN /\ ViewAssign(v, text, state, resolved.title, resolved.log)
       /\ UNCHANGED <<sessions, decision>>

\* acceptAllSuggestions(view) on view v
ViewAcceptAllSuggestions(v) ==
    LET text == views[v].doc
        state == views[v].field
        changes == AcceptAllChanges(state.suggestions, Len(text))
        newDoc == ApplyChanges(text, changes)
        newState == Update(state, AcceptAllEffect, changes, Len(text),
                           Len(newDoc))
        renameTo == AcceptAllRenameTo(state.proposedTitle, TitleState)
    IN /\ ViewAssign(v, newDoc, newState, ResetTitleState,
                     IF state.resolveCallback # NoCallback
                     THEN Invoke(calls, state.resolveCallback,
                                 Outcome(newDoc, renameTo))
                     ELSE calls)
       /\ decision' = ViewDecided(state, "accepted", "acceptAll")
       /\ UNCHANGED sessions

\* rejectAllSuggestions(view) on view v
ViewRejectAllSuggestions(v) ==
    LET text == views[v].doc
        state == views[v].field
        newState == Update(state, RejectAllEffect, << >>, Len(text), Len(text))
    IN /\ ViewAssign(v, text, newState, ResetTitleState,
                     IF state.resolveCallback # NoCallback
                     THEN Invoke(calls, state.resolveCallback, NullResult)
                     ELSE calls)
       /\ UNCHANGED <<sessions, decision>>

\* acceptTitle(view) on view v
ViewAcceptTitle(v) ==
    LET text == views[v].doc
        state == views[v].field
        title == [titleAccepted |-> TRUE, titleRejected |-> FALSE,
                  storedProposedTitle |-> state.proposedTitle]
        newState == Update(state, ClearProposedTitle(state), << >>,
                           Len(text), Len(text))
        resolved == CheckAndResolve(newState, text, title, calls)
    IN /\ ViewAssign(v, text, newState, resolved.title, resolved.log)
       /\ decision' = ViewDecided(state, "accepted", "acceptTitle")
       /\ UNCHANGED sessions

\* rejectTitle(view) on view v
ViewRejectTitle(v) ==
    LET text == views[v].doc
        state == views[v].field
        title == [titleAccepted |-> FALSE, titleRejected |-> TRUE,
                  storedProposedTitle |-> Undefined]
        newState == Update(state, ClearProposedTitle(state), << >>,
                           Len(text), Len(text))
        resolved == CheckAndResolve(newState, text, title, calls)
    IN /\ ViewAssign(v, text, newState, resolved.title, resolved.log)
       /\ decision' = ViewDecided(state, "rejected", "rejectTitle")
       /\ UNCHANGED sessions

\* buildInlineDecorations: the accept and reject buttons of the suggestion
\* with this id are rendered in view v
ButtonsRendered(v, id) ==
    \E i \in 1..Len(views[v].field.suggestions) :
        LET suggestion == views[v].field.suggestions[i]
        IN /\ suggestion.id = id
           /\ (Len(suggestion.originalText) > 0
                  \/ Len(suggestion.suggestedText) > 0)

\* buildBlockDecorations: the toolbar is rendered in view v
ToolbarRendered(v) == Len(views[v].field.suggestions) > 0

\* buildBlockDecorations: the title widget is rendered in view v
TitleWidgetRendered(v) ==
    /\ Truthy(views[v].field.proposedTitle)
    /\ Truthy(views[v].field.currentTitle)

\* what the views, the module variables and the logs are left alone by
ViewsFrame == UNCHANGED <<oneViewVars, dialogVars, formatVars, chatVars,
                          promptVars>>

\* the extension is installed in every view: the plugin constructed last has
\* set currentView
ViewsInit ==
    /\ doc = InitialDoc
    /\ suggestions = EmptyState.suggestions
    /\ proposedTitle = EmptyState.proposedTitle
    /\ currentTitle = EmptyState.currentTitle
    /\ resolveCallback = EmptyState.resolveCallback
    /\ titleAccepted = FALSE
    /\ titleRejected = FALSE
    /\ storedProposedTitle = Undefined
    /\ sessions = 0
    /\ calls = [s \in 1..MaxShows |-> << >>]
    /\ fromBuild = FALSE
    /\ edits = 0
    /\ decision = [s \in 1..MaxShows |-> NoDecision]
    /\ NoDialog
    /\ NoFormat
    /\ views = [v \in ViewIds |-> View(InitialDoc, EmptyState)]
    /\ currentView = MaxViews
    /\ NoChats
    /\ NoPrompt
    /\ last = [op |-> "init", view |-> NoView, target |-> NoView, id |-> NoId,
               callback |-> NoCallback]

\* a caller starts a review in view v
ShowInView(v) ==
    /\ sessions < MaxShows
    /\ \E suggs \in ViewLists(views[v].doc) :
       \E proposed \in ViewTitleInputs, current \in CurrentTitleInputs :
           ViewShow(v, suggs, proposed, current)
    /\ last' = ViewRan("showInlineSuggestions", v, v, NoId)
    /\ ViewsFrame

\* the accept button of a live suggestion of view v:
\* () => acceptSuggestion(view, suggestion.id)
AcceptButton(v, id) ==
    /\ ButtonsRendered(v, id)
    /\ ViewAcceptSuggestion(v, id)
    /\ last' = ViewRan("acceptOne", v, v, id)
    /\ ViewsFrame

\* the reject button of a live suggestion of view v:
\* () => rejectSuggestion(view, suggestion.id)
RejectButton(v, id) ==
    /\ ButtonsRendered(v, id)
    /\ ViewRejectSuggestion(v, id)
    /\ last' = ViewRan("rejectOne", v, v, id)
    /\ ViewsFrame

\* the accept-all button of the toolbar of view v:
\* () => currentView && acceptAllSuggestions(currentView)
ToolbarAcceptAll(v) ==
    /\ ToolbarRendered(v)
    /\ currentView # NoView
    /\ ViewAcceptAllSuggestions(currentView)
    /\ last' = ViewRan("acceptAll", v, currentView, NoId)
    /\ ViewsFrame

\* the reject-all button of the toolbar of view v:
\* () => currentView && rejectAllSuggestions(currentView)
ToolbarRejectAll(v) ==
    /\ ToolbarRendered(v)
    /\ currentView # NoView
    /\ ViewRejectAllSuggestions(currentView)
    /\ last' = ViewRan("rejectAll", v, currentView, NoId)
    /\ ViewsFrame

\* the accept button of the title widget of view v:
\* () => currentView && acceptTitle(currentView)
TitleAcceptButton(v) ==
    /\ TitleWidgetRendered(v)
    /\ currentView # NoView
    /\ ViewAcceptTitle(currentView)
    /\ last' = ViewRan("acceptTitle", v, currentView, NoId)
    /\ ViewsFrame

\* the reject button of the title widget of view v:
\* () => currentView && rejectTitle(currentView)
TitleRejectButton(v) ==
    /\ TitleWidgetRendered(v)
    /\ currentView # NoView
    /\ ViewRejectTitle(currentView)
    /\ last' = ViewRan("rejectTitle", v, currentView, NoId)
    /\ ViewsFrame

\* any other update of view v (focus, selection, geometry): the plugin's
\* update(update) sets currentView = update.view
ViewUpdate(v) ==
    /\ currentView # v
    /\ currentView' = v
    /\ last' = ViewRan("update", v, v, NoId)
    /\ UNCHANGED <<views, titleAccepted, titleRejected, storedProposedTitle,
                   sessions, calls, decision>>
    /\ ViewsFrame

ViewsNext ==
    \E v \in ViewIds :
        \/ ShowInView(v)
        \/ \E id \in OperationIds : AcceptButton(v, id)
        \/ \E id \in OperationIds : RejectButton(v, id)
        \/ ToolbarAcceptAll(v)
        \/ ToolbarRejectAll(v)
        \/ TitleAcceptButton(v)
        \/ TitleRejectButton(v)
        \/ ViewUpdate(v)

ViewsSpec == ViewsInit /\ [][ViewsNext]_vars

----------------------------------------------------------------------------
(* The two front-ends on one diff: the document holds the original text, the
   inline review shows buildSuggestions(original, modified, 0, length) and
   the review dialog shows buildSegments(original, modified); the user takes
   each decision in the dialog and then in the editor *)

\* the indices of the segments the user decides on, in order
RECURSIVE NonContext(_, _)
NonContext(segs, i) ==
    IF i > Len(segs) THEN << >>
    ELSE IF segs[i].kind # "context" THEN <<i>> \o NonContext(segs, i + 1)
    ELSE NonContext(segs, i + 1)

\* the segment that stands for the k-th suggestion, 0 if there is none
SegmentOf(segs, k) ==
    IF k \in 1..Len(NonContext(segs, 1)) THEN NonContext(segs, 1)[k] ELSE 0

\* the suggestions buildSuggestions can number
BuiltNumbers == 1..(MaxText + 1)

AgreeInit ==
    /\ doc \in DiffedTexts
    /\ suggestions = EmptyState.suggestions
    /\ proposedTitle = EmptyState.proposedTitle
    /\ currentTitle = EmptyState.currentTitle
    /\ resolveCallback = EmptyState.resolveCallback
    /\ titleAccepted = FALSE
    /\ titleRejected = FALSE
    /\ storedProposedTitle = Undefined
    /\ sessions = 0
    /\ calls = [s \in 1..MaxSessions |-> << >>]
    /\ fromBuild = FALSE
    /\ edits = 0
    /\ decision = NoDecision
    /\ NoDialog
    /\ NoFormat
    /\ NoViews
    /\ NoChats
    /\ NoPrompt
    /\ last = [op |-> "init", id |-> NoId, change |-> NoChange,
               how |-> "done", live |-> 0, title |-> Undefined]

\* reviewDiff(app, {originalText, modifiedText}) and showInlineSuggestions(
\* view, buildSuggestions(originalText, modifiedText, 0, originalText.length))
\* for the text of the document and one modified text
ReviewBoth ==
    /\ sessions = 0
    /\ modal = NoModal
    /\ \E modifiedText \in DiffedTexts :
       \E parts \in DiffLines(doc, modifiedText) :
           LET built == BuildSuggestions(parts, 0, Len(doc))
           IN /\ Len(built) # 0
              /\ modal' = [NewModal(BuildSegments(parts), Undefined, Undefined)
                             EXCEPT !.resolve = TRUE, !.screen = "open"]
              /\ Show(built, Undefined, Undefined, TRUE)
              /\ last' = Ran("reviewBoth", NoId, NoChange, "done")
    /\ UNCHANGED <<promise, formatVars, restVars>>

\* the Keep or Skip button of the segment of the k-th suggestion, while that
\* suggestion is live
ToggleUndecided(k, accepted) ==
    /\ HasId(suggestions, SuggestionId(k - 1))
    /\ SegmentOf(modal.segments, k) # 0
    /\ ToggleSegment(SegmentOf(modal.segments, k), accepted)

\* the accept button of the k-th suggestion, its segment being kept
AcceptAsToggled(k) ==
    /\ HasId(suggestions, SuggestionId(k - 1))
    /\ SegmentOf(modal.segments, k) # 0
    /\ modal.segments[SegmentOf(modal.segments, k)].accepted
    /\ AcceptSuggestion(SuggestionId(k - 1))

\* the reject button of the k-th suggestion, its segment being skipped
RejectAsToggled(k) ==
    /\ HasId(suggestions, SuggestionId(k - 1))
    /\ SegmentOf(modal.segments, k) # 0
    /\ ~modal.segments[SegmentOf(modal.segments, k)].accepted
    /\ RejectOne(SuggestionId(k - 1))

AgreeNext ==
    \/ ReviewBoth
    \/ \E k \in BuiltNumbers : \E accepted \in BOOLEAN :
           ToggleUndecided(k, accepted)
    \/ \E k \in BuiltNumbers : AcceptAsToggled(k)
    \/ \E k \in BuiltNumbers : RejectAsToggled(k)

AgreeSpec == AgreeInit /\ [][AgreeNext]_vars

----------------------------------------------------------------------------
(* The chat storage: every ChatStorage starts on the object DEFAULT_CHATS_DATA
   and changes it in place; ids are Date.now().toString() *)

\* the chats kept at once
MaxChats == 3
\* the milliseconds that pass
MaxNow == 3
\* the messages of one chat
MaxMessages == 1

\* Date.now().toString()
ChatId(now) == ToString(now)

\* the ids callers pass: those of the chats ever created, and an unknown one
ChatIdInputs == {ChatId(now) : now \in 1..MaxNow} \cup {"unknown"}

\* the chat createChat constructs (title and time stamps left out)
Chat(id) == [id |-> id, messages |-> << >>]

\* Array.prototype.findIndex(c => c.id === chatId), counted from 1; 0 for -1
FindIndex(chats, chatId) ==
    IF \E i \in 1..Len(chats) : chats[i].id = chatId
    THEN CHOOSE i \in 1..Len(chats) :
             chats[i].id = chatId /\ \A j \in 1..(i - 1) : chats[j].id # chatId
    ELSE 0

\* ChatStorage.createChat(): unshift, then currentChatId = chat.id
CreateChat(d, now) ==
    [chats |-> <<Chat(ChatId(now))>> \o d.chats, currentChatId |-> ChatId(now)]

\* ChatStorage.setCurrentChat(chatId)
SetCurrentChat(d, chatId) ==
    IF FindIndex(d.chats, chatId) # 0
    THEN [d EXCEPT !.currentChatId = chatId] ELSE d

\* deleteChat without the test of currentChatId: the current id stays
DeleteChatKeepsCurrent(d, chatId) ==
    LET index == FindIndex(d.chats, chatId)
    IN IF index # 0
       THEN [d EXCEPT !.chats = SubSeq(d.chats, 1, index - 1)
                                    \o SubSeq(d.chats, index + 1, Len(d.chats))]
       ELSE d

\* ChatStorage.deleteChat(chatId): splice(index, 1), then
\* currentChatId = chats[0]?.id || null if the current chat was deleted
DeleteChat(d, chatId) ==
    LET index == FindIndex(d.chats, chatId)
        rest == SubSeq(d.chats, 1, index - 1)
                    \o SubSeq(d.chats, index + 1, Len(d.chats))
    IN IF index # 0
       THEN [chats |-> rest,
             currentChatId |->
                 IF d.currentChatId = chatId
                 THEN (IF rest # << >> /\ Truthy(rest[1].id)
                       THEN rest[1].id ELSE Null)
                 ELSE d.currentChatId]
       ELSE d

\* ChatStorage.addMessageToChat(chatId, message)
AddMessageToChat(d, chatId, message) ==
    LET index == FindIndex(d.chats, chatId)
    IN IF index # 0
       THEN [d EXCEPT !.chats[index].messages = Append(@, message)]
       ELSE d

\* the record of a storage operation: its argument, the clock, and the data
\* it began with
ChatRan(op, chatId, now) ==
    [op |-> op, chatId |-> chatId, now |-> now, before |-> data]

\* what the storage leaves alone
ChatFrame == UNCHANGED <<reviewVars, dialogVars, formatVars, viewVars,
                         promptVars>>

\* new ChatStorage(load, save) for the first time
ChatInit ==
    /\ doc = InitialDoc
    /\ suggestions = EmptyState.suggestions
    /\ proposedTitle = EmptyState.proposedTitle
    /\ currentTitle = EmptyState.currentTitle
    /\ resolveCallback = EmptyState.resolveCallback
    /\ titleAccepted = FALSE
    /\ titleRejected = FALSE
    /\ storedProposedTitle = Undefined
    /\ sessions = 0
    /\ calls = [s \in 1..MaxSessions |-> << >>]
    /\ fromBuild = FALSE
    /\ edits = 0
    /\ decision = NoDecision
    /\ NoDialog
    /\ NoFormat
    /\ NoViews
    /\ data = DEFAULT_CHATS_DATA
    /\ NoPrompt
    /\ last = [op |-> "new", chatId |-> Null, now |-> 1,
               before |-> DEFAULT_CHATS_DATA]

\* new ChatStorage(load, save) once more: this.data = DEFAULT_CHATS_DATA, the
\* object the storages before it have changed
NewChatStorage ==
    /\ data' = data
    /\ last' = ChatRan("new", Null, last.now)
    /\ ChatFrame

\* storage.createChat() at some later millisecond, or in the same one
CreateChatCall ==
    /\ Len(data.chats) < MaxChats
    /\ \E now \in last.now..MaxNow :
           /\ data' = CreateChat(data, now)
           /\ last' = ChatRan("createChat", ChatId(now), now)
    /\ ChatFrame

\* storage.setCurrentChat(chatId)
SetCurrentChatCall ==
    /\ \E chatId \in ChatIdInputs :
           /\ data' = SetCurrentChat(data, chatId)
           /\ last' = ChatRan("setCurrentChat", chatId, last.now)
    /\ ChatFrame

\* storage.deleteChat(chatId)
DeleteChatCall ==
    /\ \E chatId \in ChatIdInputs :
           /\ data' = DeleteChat(data, chatId)
           /\ last' = ChatRan("deleteChat", chatId, last.now)
    /\ ChatFrame

\* storage.addMessageToChat(chatId, message)
AddMessageToChatCall ==
    /\ \E chatId \in ChatIdInputs :
           /\ \A i \in 1..Len(data.chats) :
                  Len(data.chats[i].messages) < MaxMessages
           /\ data' = AddMessageToChat(data, chatId, "user")
           /\ last' = ChatRan("addMessageToChat", chatId, last.now)
    /\ ChatFrame

ChatNext ==
    \/ NewChatStorage
    \/ CreateChatCall
    \/ SetCurrentChatCall
    \/ DeleteChatCall
    \/ AddMessageToChatCall

ChatSpec == ChatInit /\ [][ChatNext]_vars

----------------------------------------------------------------------------
(* The inline prompt: showInlinePrompt(editor) mounts one InlinePromptWidget,
   whose input, toggle button and dropdown items take the user's events
   until close(result) removes it *)

\* PRESET_PROMPTS.length
PresetCount == 5

\* PRESET_PROMPTS[i].prompt
PresetPrompt(i) == "preset-" \o ToString(i)

\* what the user can have in the input
PromptInputs == {"", " ", "New", " New "}

\* what resolve is called with
PromptResult(prompt) == [null |-> FALSE, prompt |-> prompt]
NullPrompt == [null |-> TRUE, prompt |-> ""]

\* the keys of a keydown event
Keys == {"Escape", "Enter", "ArrowDown", "ArrowUp", "Tab", "a"}

\* openDropdown()
OpenDropdown(w) == [w EXCEPT !.isDropdownOpen = TRUE, !.selectedIndex = 0]

\* closeDropdown()
CloseDropdown(w) == [w EXCEPT !.isDropdownOpen = FALSE, !.selectedIndex = -1]

\* moveSelection without the test of the new index
MoveSelectionUnchecked(w, delta) ==
    [w EXCEPT !.selectedIndex = w.selectedIndex + delta]

\* moveSelection(delta)
MoveSelection(w, delta) ==
    LET newIndex == w.selectedIndex + delta
    IN IF newIndex >= 0 /\ newIndex < PresetCount
       THEN [w EXCEPT !.selectedIndex = newIndex] ELSE w

\* highlightItem(index)
HighlightItem(w, index) == [w EXCEPT !.selectedIndex = index]

\* close(result): the listener on the document and the container are
\* removed, resolve is called
ClosePrompt(w, result) ==
    [w EXCEPT !.screen = "closed", !.resolved = Append(@, result)]

\* selectItem(item) for the item with this index
SelectItem(w, index) ==
    IF Truthy(PresetPrompt(index))
    THEN ClosePrompt(w, PromptResult(PresetPrompt(index))) ELSE w

\* handleKeyDown(e)
HandleKeyDown(w, key, shiftKey) ==
    CASE key = "Escape" -> ClosePrompt(w, NullPrompt)
      [] key = "Enter" ->
           IF w.isDropdownOpen /\ w.selectedIndex >= 0
           THEN (IF w.selectedIndex < PresetCount
                 THEN SelectItem(w, w.selectedIndex) ELSE w)
           ELSE IF Truthy(Trim(w.value))
                THEN ClosePrompt(w, PromptResult(Trim(w.value)))
                ELSE w
      [] key = "ArrowDown" ->
           IF ~w.isDropdownOpen THEN OpenDropdown(w) ELSE MoveSelection(w, 1)
      [] key = "ArrowUp" ->
           IF w.isDropdownOpen THEN MoveSelection(w, -1) ELSE w
      [] key = "Tab" ->
           IF w.isDropdownOpen
           THEN MoveSelection(w, IF shiftKey THEN -1 ELSE 1) ELSE w
      [] OTHER -> w

\* handleInput(), the input holding value
HandleInput(w, value) ==
    LET typed == [w EXCEPT !.value = value]
    IN IF typed.isDropdownOpen /\ Truthy(typed.value)
       THEN CloseDropdown(typed) ELSE typed

\* handleOutsideClick(e)
HandleOutsideClick(w, inside) ==
    IF ~inside THEN ClosePrompt(w, NullPrompt) ELSE w

\* toggleDropdown()
ToggleDropdown(w) ==
    IF w.isDropdownOpen THEN CloseDropdown(w) ELSE OpenDropdown(w)

\* the record of an event: its kind and what it carried
PromptRan(op, arg) == [op |-> op, arg |-> arg, before |-> widget]

\* what the prompt leaves alone
PromptFrame == UNCHANGED <<reviewVars, dialogVars, formatVars, viewVars,
                           chatVars>>

PromptInit ==
    /\ doc = InitialDoc
    /\ suggestions = EmptyState.suggestions
    /\ proposedTitle = EmptyState.proposedTitle
    /\ currentTitle = EmptyState.currentTitle
    /\ resolveCallback = EmptyState.resolveCallback
    /\ titleAccepted = FALSE
    /\ titleRejected = FALSE
    /\ storedProposedTitle = Undefined
    /\ sessions = 0
    /\ calls = [s \in 1..MaxSessions |-> << >>]
    /\ fromBuild = FALSE
    /\ edits = 0
    /\ decision = NoDecision
    /\ NoDialog
    /\ NoFormat
    /\ NoViews
    /\ NoChats
    /\ widget = NoWidget
    /\ last = [op |-> "init", arg |-> "", before |-> NoWidget]

\* showInlinePrompt(editor): no editor view, coordsAtPos throws or returns
\* null, or the widget is constructed and mounted
ShowInlinePrompt ==
    /\ widget.screen = "none"
    /\ \E editor \in {"noView", "throws", "noCoords", "coords"} :
           /\ widget' = IF editor = "coords"
                        THEN [widget EXCEPT !.screen = "mounted"]
                        ELSE [widget EXCEPT !.screen = "absent",
                                            !.resolved = Append(@, NullPrompt)]
           /\ last' = PromptRan("showInlinePrompt", editor)
    /\ PromptFrame

\* a keydown event on the input
KeyDown ==
    /\ widget.screen = "mounted"
    /\ \E key \in Keys, shiftKey \in BOOLEAN :
           /\ widget' = HandleKeyDown(widget, key, shiftKey)
           /\ last' = PromptRan("keydown", key)
    /\ PromptFrame

\* an input event: the user has changed the text of the input
InputEvent ==
    /\ widget.screen = "mounted"
    /\ \E value \in PromptInputs \ {widget.value} :
           /\ widget' = HandleInput(widget, value)
           /\ last' = PromptRan("input", value)
    /\ PromptFrame

\* a click on the toggle button
ToggleClick ==
    /\ widget.screen = "mounted"
    /\ widget' = ToggleDropdown(widget)
    /\ last' = PromptRan("toggle", "")
    /\ PromptFrame

\* a click on an item of the dropdown, which is shown
ItemClick ==
    /\ widget.screen = "mounted"
    /\ widget.isDropdownOpen
    /\ \E index \in 0..(PresetCount - 1) :
           /\ widget' = SelectItem(widget, index)
           /\ last' = PromptRan("click", PresetPrompt(index))
    /\ PromptFrame

\* the mouse enters an item of the dropdown, which is shown
ItemHover ==
    /\ widget.screen = "mounted"
    /\ widget.isDropdownOpen
    /\ \E index \in 0..(PresetCount - 1) :
           /\ widget' = HighlightItem(widget, index)
           /\ last' = PromptRan("mouseenter", PresetPrompt(index))
    /\ PromptFrame

\* a mousedown event on the document, inside the container or outside
MouseDown ==
    /\ widget.screen = "mounted"
    /\ \E inside \in BOOLEAN :
           /\ widget' = HandleOutsideClick(widget, inside)
           /\ last' = PromptRan("mousedown",
                                IF inside THEN "inside" ELSE "outside")
    /\ PromptFrame

PromptNext ==
    \/ ShowInlinePrompt
    \/ KeyDown
    \/ InputEvent
    \/ ToggleClick
    \/ ItemClick
    \/ ItemHover
    \/ MouseDown

PromptSpec == PromptInit /\ [][PromptNext]_vars

----------------------------------------------------------------------------
(* Vocabulary of the properties *)

\* a review is open: its callback is registered and was never invoked, and a
\* suggestion is live or a title is pending
Open ==
    /\ resolveCallback # NoCallback
    /\ calls[resolveCallback] = << >>
    /\ (Len(suggestions) > 0 \/ Truthy(proposedTitle))

\* 0 <= from <= to <= len
RangeInDocument(s, len) == 0 <= s.from /\ s.from <= s.to /\ s.to <= len

\* the suggestion with this id is live
Live(suggs, id) == \E i \in 1..Len(suggs) : suggs[i].id = id

\* the live suggestion with this id (ids are distinct in one review)
TheLive(suggs, id) == suggs[CHOOSE i \in 1..Len(suggs) : suggs[i].id = id]

\* the operation of this step
Did(op) == last'.op = op

\* the callback registered before this step is invoked in it
Invoked ==
    /\ resolveCallback # NoCallback
    /\ Len(calls'[resolveCallback]) = Len(calls[resolveCallback]) + 1

\* what the callback is invoked with in this step
TheOutcome == calls'[resolveCallback][Len(calls'[resolveCallback])]

\* the indices of the suggestions other than the one with this id
Others(suggs, id) == {i \in 1..Len(suggs) : suggs[i].id # id}

\* suggestion s is in the list after the step exactly as it was, but for its
\* range, which is now [from, to)
KeptAs(s, from, to) ==
    \E j \in 1..Len(suggestions') :
        suggestions'[j] = [s EXCEPT !.from = from, !.to = to]

----------------------------------------------------------------------------
(* C1: the resolution callback of a review is invoked at most once, whatever
   operations and document changes follow one another, also after the review
   has resolved. *)
CallbackInvokedAtMostOnce == \A s \in DOMAIN calls : Len(calls[s]) <= 1

(* C2: a registered callback with no live suggestion and no pending title has
   already been invoked: the review is never left waiting with nothing
   pending. *)
NothingPendingMeansResolved ==
    (resolveCallback # NoCallback /\ Len(suggestions) = 0
        /\ ~Truthy(proposedTitle))
        => Len(calls[resolveCallback]) >= 1

(* C3: cancelling an open review by rejectAll or by clearSuggestions invokes
   its callback with null exactly once. *)
CancelResolvesWithNull ==
    [][(Open /\ (Did("rejectAll") \/ Did("clearSuggestions")))
          => calls'[resolveCallback] = <<NullResult>>]_vars

(* C4: in a review whose suggestions came from buildSuggestions over a range
   of the document, every live suggestion has 0 <= from <= to <= document
   length, in every reachable state. *)
BuiltRangesStayInDocument ==
    fromBuild => \A i \in 1..Len(suggestions) :
                    RangeInDocument(suggestions[i], Len(doc))

\* a built review whose document the user has shortened under a live suggestion
BuiltRangesWitness ==
    /\ fromBuild
    /\ last.op = "documentChange"
    /\ Len(doc) < Len(InitialDoc)
    /\ \E i \in 1..Len(suggestions) : suggestions[i].to = Len(doc)
                                        /\ suggestions[i].from < suggestions[i].to

(* C5: on a document change a live suggestion is removed exactly if mapping
   one of its endpoints throws or gives a position below 0 or above the new
   document length; every other one is kept with its range mapped and its id
   and texts unchanged, and no callback runs. *)
DocumentChangeDropsOnlyUnmappable ==
    [][Did("documentChange") =>
          LET c == last'.change
              Unmappable(s) ==
                  LET f == MapPos(s.from, c, Len(doc))
                      t == MapPos(s.to, c, Len(doc))
                  IN \/ f.thrown \/ t.thrown
                     \/ f.pos < 0 \/ t.pos < 0
                     \/ f.pos > Len(doc') \/ t.pos > Len(doc')
              keep == {i \in 1..Len(suggestions) : ~Unmappable(suggestions[i])}
          IN /\ \A i \in 1..Len(suggestions) :
                    Unmappable(suggestions[i])
                        <=> ~Live(suggestions', suggestions[i].id)
             /\ \A i \in keep :
                    KeptAs(suggestions[i],
                           MapPos(suggestions[i].from, c, Len(doc)).pos,
                           MapPos(suggestions[i].to, c, Len(doc)).pos)
             /\ Len(suggestions') = Cardinality(keep)
             /\ calls' = calls]_vars

\* a document change that dropped one of two live suggestions and kept the
\* other, moved
DocumentChangeWitness ==
    /\ last.op = "documentChange"
    /\ last.live = 2
    /\ Len(suggestions) = 1
    /\ Len(last.change.insert) > 0
    /\ suggestions[1].from > last.change.from

(* C6: acceptOne(id) on a live suggestion with a valid range replaces exactly
   the text in [from, to) with suggestedText, removes that suggestion, and
   keeps every other live suggestion with its range remapped through the
   edit. *)
AcceptOneKeepsEveryOther ==
    [][(Did("acceptOne") /\ Live(suggestions, last'.id)
          /\ RangeInDocument(TheLive(suggestions, last'.id), Len(doc))) =>
          LET s == TheLive(suggestions, last'.id)
              c == Change(s.from, s.to, s.suggestedText)
          IN /\ doc' = Replace(doc, s.from, s.to, s.suggestedText)
             /\ ~Live(suggestions', s.id)
             /\ \A i \in Others(suggestions, s.id) :
                    KeptAs(suggestions[i],
                           MapPos(suggestions[i].from, c, Len(doc)).pos,
                           MapPos(suggestions[i].to, c, Len(doc)).pos)
             /\ Len(suggestions') = Len(suggestions) - 1]_vars

(* C6 as amended: the same, where the other live suggestions that are kept
   with their range remapped are those whose own range is valid; one whose
   range is out of bounds may be dropped by the remap of the edit. *)
AcceptOneKeepsValidOthers ==
    [][(Did("acceptOne") /\ Live(suggestions, last'.id)
          /\ RangeInDocument(TheLive(suggestions, last'.id), Len(doc))) =>
          LET s == TheLive(suggestions, last'.id)
              c == Change(s.from, s.to, s.suggestedText)
          IN /\ doc' = Replace(doc, s.from, s.to, s.suggestedText)
             /\ ~Live(suggestions', s.id)
             /\ \A i \in Others(suggestions, s.id) :
                    RangeInDocument(suggestions[i], Len(doc)) =>
                        KeptAs(suggestions[i],
                               MapPos(suggestions[i].from, c, Len(doc)).pos,
                               MapPos(suggestions[i].to, c, Len(doc)).pos)
             /\ Len(suggestions') <= Len(suggestions) - 1]_vars

\* an accepted insertion in front of the other live suggestion, which moved
AcceptOneWitness ==
    /\ last.op = "acceptOne"
    /\ last.how = "applied"
    /\ last.live = 2
    /\ Len(suggestions) = 1
    /\ last.change.from = last.change.to
    /\ Len(last.change.insert) > 0
    /\ suggestions[1].from > last.change.from
    /\ suggestions[1].to = Len(doc)

(* C7: acceptOne(id) on a live suggestion whose range is invalid does what
   rejectOne(id) does: the document is unchanged, the suggestion is removed,
   and the other suggestions stay live as they are. *)
InvalidAcceptIsReject ==
    [][(Did("acceptOne") /\ Live(suggestions, last'.id)
          /\ ~RangeInDocument(TheLive(suggestions, last'.id), Len(doc))) =>
          /\ doc' = doc
          /\ ~Live(suggestions', last'.id)
          /\ \A i \in Others(suggestions, last'.id) :
                 KeptAs(suggestions[i], suggestions[i].from, suggestions[i].to)
          /\ Len(suggestions') = Len(suggestions) - 1
          /\ (Len(suggestions') > 0 => calls' = calls)
          /\ RejectSuggestion(last'.id)]_vars

\* an accept of a reversed range that was turned into a reject and left the
\* other suggestion live and the review open
InvalidAcceptWitness ==
    /\ last.op = "acceptOne"
    /\ last.how = "rejected"
    /\ last.live = 2
    /\ Len(suggestions) = 1
    /\ doc = InitialDoc
    /\ Open

(* C8: rejectOne(id) removes the suggestion with that id and nothing else:
   the document, every other live suggestion, proposedTitle and currentTitle
   are unchanged. *)
RejectOneFrame ==
    [][Did("rejectOne") =>
          /\ doc' = doc
          /\ proposedTitle' = proposedTitle
          /\ currentTitle' = currentTitle
          /\ ~Live(suggestions', last'.id)
          /\ \A i \in Others(suggestions, last'.id) :
                 KeptAs(suggestions[i], suggestions[i].from, suggestions[i].to)
          /\ Len(suggestions') = Cardinality(Others(suggestions, last'.id))]_vars

\* a reject that removed one of two suggestions while a title is pending
RejectOneWitness ==
    /\ last.op = "rejectOne"
    /\ last.live = 2
    /\ Len(suggestions) = 1
    /\ suggestions[1].id # last.id
    /\ Truthy(proposedTitle)
    /\ currentTitle # Undefined

(* C9: rejectOne(id) a second time in a row, after a first call made while
   suggestions were live, changes nothing: not the live set, not the
   document, and the callback is not invoked. *)
SecondRejectIsNoOp ==
    [][(last.op = "rejectOne" /\ last.live > 0
          /\ Did("rejectOne") /\ last'.id = last.id) =>
          /\ suggestions' = suggestions
          /\ doc' = doc
          /\ calls' = calls]_vars

(* C10: acceptAll() applies, against the document as it was, the replacement
   [from, to) -> suggestedText of every live suggestion whose range lies in
   the document, and of no other: every character outside those ranges is
   kept and every suggested text stands where its range was, shifted by the
   edits before it. The live set is empty after the same step and the
   callback receives the resulting text. *)
AcceptAllAppliesValidOnes ==
    [][(Did("acceptAll")
          /\ \A i, j \in 1..Len(suggestions) :
                (i # j /\ RangeInDocument(suggestions[i], Len(doc))
                       /\ RangeInDocument(suggestions[j], Len(doc)))
                    => Apart(suggestions[i], suggestions[j])) =>
          LET n == Len(suggestions)
              Applies(i) == RangeInDocument(suggestions[i], Len(doc))
              Growth(i) == IF Applies(i)
                           THEN Len(suggestions[i].suggestedText)
                                    - (suggestions[i].to - suggestions[i].from)
                           ELSE 0
              \* the edit of j lands in front of position p of the old text
              Before(j, p) == Applies(j) /\ suggestions[j].to <= p
              \* the edit of j lands in front of the edit of i
              Precedes(j, i) ==
                  /\ j # i
                  /\ Before(j, suggestions[i].from)
                  /\ (suggestions[i].from = suggestions[i].to
                        /\ suggestions[j].from = suggestions[i].from) => j < i
              Start(i) == suggestions[i].from
                            + SumSeq([j \in 1..n |->
                                        IF Precedes(j, i) THEN Growth(j) ELSE 0])
              Inside(p) == \E i \in 1..n :
                              Applies(i) /\ suggestions[i].from < p
                                         /\ p <= suggestions[i].to
          IN /\ Len(doc') = Len(doc) + SumSeq([i \in 1..n |-> Growth(i)])
             /\ \A i \in 1..n : Applies(i) =>
                    SubSeq(doc', Start(i) + 1,
                           Start(i) + Len(suggestions[i].suggestedText))
                        = suggestions[i].suggestedText
             /\ \A p \in 1..Len(doc) : ~Inside(p) =>
                    doc'[p + SumSeq([j \in 1..n |->
                                       IF Before(j, p - 1) THEN Growth(j) ELSE 0])]
                        = doc[p]
             /\ suggestions' = << >>
             /\ (resolveCallback # NoCallback =>
                    /\ Len(calls'[resolveCallback]) = Len(calls[resolveCallback]) + 1
                    /\ ~calls'[resolveCallback][Len(calls'[resolveCallback])].null
                    /\ calls'[resolveCallback][Len(calls'[resolveCallback])].text
                           = doc')]_vars

\* acceptAll of a review with an insertion at the start and a deletion at the
\* end of the document, both applied in the one step
AcceptAllWitness ==
    /\ last.op = "acceptAll"
    /\ last.live = 2
    /\ doc = <<"x">> \o SubSeq(InitialDoc, 1, Len(InitialDoc) - 1)
    /\ edits = 0
    /\ suggestions = << >>
    /\ Len(calls[1]) = 1
    /\ calls[1][1].text = doc

(* C11: the Outcome acceptAll() delivers has renameTo equal to the title that
   is pending when acceptAll() is invoked, and has no renameTo when the title
   was rejected earlier in the review. *)
AcceptAllCarriesPendingTitle ==
    [][(Did("acceptAll") /\ Invoked) =>
          /\ ~TheOutcome.null
          /\ (Truthy(proposedTitle) => TheOutcome.renameTo = proposedTitle)
          /\ (decision.kind = "rejected" => TheOutcome.renameTo = Undefined)]_vars

\* acceptAll of two live suggestions with the title still pending: the bulk
\* operation accepted the title and delivered it
AcceptAllTitleWitness ==
    /\ last.op = "acceptAll"
    /\ last.live = 2
    /\ last.title = "New"
    /\ decision = Decided("accepted", "New", "acceptAll")
    /\ calls[1] = <<Outcome(doc, "New")>>

(* C12: rejectAll() empties the live set and leaves the document text as it
   is; what it delivers is null, so it carries no renameTo, also when a title
   is pending. *)
RejectAllFrame ==
    [][Did("rejectAll") =>
          /\ doc' = doc
          /\ suggestions' = << >>
          /\ (resolveCallback # NoCallback => Invoked)
          /\ (Invoked => TheOutcome.null /\ TheOutcome.renameTo = Undefined)]_vars

\* rejectAll of two live suggestions while a title was pending
RejectAllWitness ==
    /\ last.op = "rejectAll"
    /\ last.live = 2
    /\ last.title = "New"
    /\ doc = InitialDoc
    /\ suggestions = << >>
    /\ calls[1] = <<NullResult>>

(* C13: acceptTitle() and rejectTitle() clear proposedTitle and leave the live
   suggestions, their ranges and the document text unchanged; the callback is
   invoked by a title operation only if no suggestion is live. *)
TitleOperationsFrame ==
    [][(Did("acceptTitle") \/ Did("rejectTitle")) =>
          /\ proposedTitle' = Undefined
          /\ suggestions' = suggestions
          /\ doc' = doc
          /\ (calls' # calls => Len(suggestions) = 0)]_vars

\* a pending title accepted while a suggestion is live: the review stays open
TitleOperationsWitness ==
    /\ last.op = "acceptTitle"
    /\ last.title = "New"
    /\ last.live = 1
    /\ Len(suggestions) = 1
    /\ proposedTitle = Undefined
    /\ calls[1] = << >>

(* C14: whenever the callback is invoked with an Outcome that is not null, its
   text is the document text at that moment and its renameTo is the proposed
   title if the title was accepted in this review, and undefined otherwise. *)
OutcomeReportsTitleDecision ==
    [][(Invoked /\ ~TheOutcome.null) =>
          /\ TheOutcome.text = doc'
          /\ TheOutcome.renameTo = IF decision'.kind = "accepted"
                                    THEN decision'.title ELSE Undefined]_vars

\* a call of buildSuggestions has returned
Built == last.op = "buildSuggestions"

(* C15: every suggestion buildSuggestions returns for a range with
   selectionStart <= selectionEnd has selectionStart <= from <= to <=
   selectionEnd, so a removal or insertion whose span lies outside the range
   gives no suggestion, also when the original text is longer than the
   range. *)
BuiltInsideRange ==
    (Built /\ last.selectionStart <= last.selectionEnd) =>
        \A i \in 1..Len(last.result) :
            /\ last.selectionStart <= last.result[i].from
            /\ last.result[i].from <= last.result[i].to
            /\ last.result[i].to <= last.selectionEnd

\* a call whose original text is longer than its range: of the two removals
\* the full range gives, the one past the range is missing
BuiltInsideRangeWitness ==
    /\ Built
    /\ Len(last.originalText) > last.selectionEnd - last.selectionStart
    /\ Len(last.result) = 1
    /\ last.result[1].to > last.result[1].from
    /\ Len(BuildSuggestions(last.changes, last.selectionStart,
                            last.selectionStart + Len(last.originalText))) = 2

(* C16: the ranges of the suggestions one call returns are pairwise disjoint
   and in document order: a.to <= b.from for a before b. *)
BuiltInDocumentOrder ==
    Built => \A i, j \in 1..Len(last.result) :
                i < j => last.result[i].to <= last.result[j].from

\* a call that returned a removal and, behind it, an insertion
BuiltInDocumentOrderWitness ==
    /\ Built
    /\ Len(last.result) = 2
    /\ last.result[1].from < last.result[1].to
    /\ last.result[1].to < last.result[2].from
    /\ last.result[2].from = last.result[2].to

(* C17: buildSuggestions(original, original, 0, len(original)) returns no
   suggestion, and no suggestion any call returns has originalText equal to
   suggestedText. *)
BuiltFromEqualTextsIsEmpty ==
    Built =>
        /\ (last.originalText = last.modifiedText /\ last.selectionStart = 0
               /\ last.selectionEnd = Len(last.originalText))
              => last.result = << >>
        /\ \A i \in 1..Len(last.result) :
               last.result[i].originalText # last.result[i].suggestedText

\* a call with the same text of two equal lines on both sides
BuiltFromEqualTextsWitness ==
    /\ Built
    /\ last.originalText = last.modifiedText
    /\ Len(Lines(last.originalText)) = 2
    /\ Lines(last.originalText)[1] = Lines(last.originalText)[2]
    /\ last.selectionStart = 0
    /\ last.selectionEnd = Len(last.originalText)
    /\ last.result = << >>

(* C18: the ids of the suggestions one call returns are pairwise distinct and
   their counters increase strictly along the sequence, also when the bounds
   check dropped a segment. *)
BuiltIdsIncrease ==
    Built => \A i, j \in 1..Len(last.result) :
                i < j => /\ last.result[i].id # last.result[j].id
                         /\ last.result[i].id[2] < last.result[j].id[2]

\* a call that returned two suggestions and dropped a third, which lies past
\* the range
BuiltIdsWitness ==
    /\ Built
    /\ Len(last.result) = 2
    /\ last.result[1].id = SuggestionId(0)
    /\ last.result[2].id = SuggestionId(1)
    /\ Len(BuildSuggestions(last.changes, last.selectionStart,
                            last.selectionStart + Len(last.originalText))) = 3

(* C19: the original fields of the segments buildSegments returns, joined in
   order, are the original text, and their modified fields are the modified
   text. *)
SegmentsCoverBothTexts ==
    last.op = "buildSegments" =>
        /\ Concat([i \in 1..Len(last.result) |-> last.result[i].original])
              = last.originalText
        /\ Concat([i \in 1..Len(last.result) |-> last.result[i].modified])
              = last.modifiedText

\* segments with a context line and a removal at the end of the parts
SegmentsWitness ==
    /\ last.op = "buildSegments"
    /\ Len(last.result) = 2
    /\ last.result[1].kind = "context"
    /\ last.result[2].kind = "remove"

(* C20: for "hello world" and "hello brave world" buildSuggestions returns
   exactly one suggestion, the pure insertion of " brave" at selectionStart + 5
   (from = to, originalText empty). *)
HelloIsOneInsertion ==
    (Built /\ last.originalText = HelloWorld
           /\ last.modifiedText = HelloBraveWorld
           /\ last.selectionEnd = last.selectionStart + Len(HelloWorld)) =>
        last.result = <<[id |-> SuggestionId(0),
                         from |-> last.selectionStart + 5,
                         to |-> last.selectionStart + 5,
                         originalText |-> << >>,
                         suggestedText |-> SubSeq(HelloBraveWorld, 6, 11)]>>

(* C20 as amended: for "hello world" and "hello brave world" buildSuggestions
   returns exactly one suggestion, the replacement of the one line: its range
   is the whole range, originalText is "hello world" and suggestedText is
   "hello brave world". *)
HelloIsOneReplacement ==
    (Built /\ last.originalText = HelloWorld
           /\ last.modifiedText = HelloBraveWorld
           /\ last.selectionEnd = last.selectionStart + Len(HelloWorld)) =>
        last.result = <<[id |-> SuggestionId(0),
                         from |-> last.selectionStart,
                         to |-> last.selectionEnd,
                         originalText |-> HelloWorld,
                         suggestedText |-> HelloBraveWorld]>>

\* the call of Scenario A has returned
HelloWitness ==
    /\ Built
    /\ last.originalText = HelloWorld
    /\ last.modifiedText = HelloBraveWorld
    /\ last.selectionStart = 1
    /\ last.selectionEnd = 1 + Len(HelloWorld)
    /\ Len(last.result) = 1

\* the only live suggestion of an open review replaces "world" by "earth" in
\* the untouched document
OnlyWorldToEarth ==
    /\ Open
    /\ doc = HelloWorld
    /\ Len(suggestions) = 1
    /\ suggestions[1].from = 6
    /\ suggestions[1].to = 11
    /\ suggestions[1].suggestedText = Earth

(* C21 as stated: accepting the only live suggestion, which covers [6,11) of
   a document of length 11 and suggests "earth", leaves a document of length
   15, no live suggestion, and the callback is invoked with that text. *)
EarthLeavesFifteen ==
    [][(OnlyWorldToEarth /\ Did("acceptOne") /\ last'.id = suggestions[1].id) =>
          /\ Len(doc') = 15
          /\ suggestions' = << >>
          /\ Invoked
          /\ TheOutcome = Outcome(doc', Undefined)]_vars

(* C21, amended: accepting the only live suggestion, which covers [6,11) of
   a document of length 11 and suggests "earth", leaves the document
   "hello earth" of length 11, no live suggestion, and the callback is
   invoked with that text. *)
EarthLeavesEleven ==
    [][(OnlyWorldToEarth /\ Did("acceptOne") /\ last'.id = suggestions[1].id) =>
          /\ Len(doc') = 11
          /\ doc' = SubSeq(HelloWorld, 1, 6) \o Earth
          /\ suggestions' = << >>
          /\ Invoked
          /\ TheOutcome = Outcome(doc', Undefined)]_vars

\* "world" was the only suggestion and was accepted: the review resolved
EarthWitness ==
    /\ last.op = "acceptOne"
    /\ last.how = "applied"
    /\ last.live = 1
    /\ last.change = Change(6, 11, Earth)
    /\ edits = 0
    /\ Len(doc) = 11
    /\ suggestions = << >>
    /\ calls[1] = <<Outcome(doc, Undefined)>>

\* two live suggestions with ranges of the document that do not overlap, no
\* title pending, the review open
TwoApart ==
    /\ Open
    /\ ~Truthy(proposedTitle)
    /\ Len(suggestions) = 2
    /\ \A i \in 1..2 : RangeInDocument(suggestions[i], Len(doc))
    /\ Apart(suggestions[1], suggestions[2])

\* one of two suggestions is left, its range in the document, the user has
\* not edited, the callback was never invoked, and the operation that has
\* just removed the other one was op
OneLeftAfter(op) ==
    /\ edits = 0
    /\ resolveCallback # NoCallback
    /\ calls[resolveCallback] = << >>
    /\ ~Truthy(proposedTitle)
    /\ Len(suggestions) = 1
    /\ RangeInDocument(suggestions[1], Len(doc))
    /\ last.live = 2
    /\ last.op = op

(* C22: with two non-overlapping live suggestions and no pending title, the
   first accept or reject of one of them does not invoke the callback; the
   second operation, which rejects the other after an accept or accepts the
   other after a reject, invokes it, and the Outcome text is the original
   document with only the accepted suggestion's range replaced by its
   suggestedText. *)
RejectOneAcceptOther ==
    [][/\ (TwoApart /\ (Did("acceptOne") \/ Did("rejectOne"))
             /\ Live(suggestions, last'.id)) =>
            (calls' = calls /\ Len(suggestions') = 1)
       /\ (OneLeftAfter("rejectOne") /\ doc = HelloWorld
             /\ Did("acceptOne") /\ last'.id = suggestions[1].id) =>
            LET s == suggestions[1]
                text == Replace(HelloWorld, s.from, s.to, s.suggestedText)
            IN /\ Invoked
               /\ TheOutcome = Outcome(text, Undefined)
               /\ doc' = text
               /\ suggestions' = << >>
       /\ (OneLeftAfter("acceptOne") /\ last.how = "applied"
             /\ doc = Replace(HelloWorld, last.change.from, last.change.to,
                              last.change.insert)
             /\ Did("rejectOne") /\ last'.id = suggestions[1].id) =>
            /\ Invoked
            /\ TheOutcome = Outcome(doc, Undefined)
            /\ doc' = doc
            /\ suggestions' = << >>]_vars

\* "hello" was accepted as "earth", then the other suggestion was rejected:
\* the callback was invoked once, with "earth world"
RejectOneAcceptOtherWitness ==
    /\ last.op = "rejectOne"
    /\ last.live = 1
    /\ suggestions = << >>
    /\ edits = 0
    /\ doc = Earth \o SubSeq(HelloWorld, 6, 11)
    /\ calls[1] = <<Outcome(doc, Undefined)>>

\* change c inserts text at an offset strictly before the start of every
\* suggestion of the list, which is not empty
InsertsBeforeAll(c, suggs) ==
    /\ c.from = c.to
    /\ Len(c.insert) > 0
    /\ Len(suggs) > 0
    /\ \A i \in 1..Len(suggs) : c.from < suggs[i].from

\* the last operation was such an edit: every live suggestion starts behind
\* the inserted text
InsertedBeforeAll ==
    /\ last.op = "documentChange"
    /\ last.change.from = last.change.to
    /\ Len(last.change.insert) > 0
    /\ \A i \in 1..Len(suggestions) :
           last.change.from + Len(last.change.insert) < suggestions[i].from

\* the range of suggestion s holds its originalText in text
HoldsOriginal(text, s) ==
    RangeInDocument(s, Len(text)) /\ SubSeq(text, s.from + 1, s.to) = s.originalText

(* C23 as stated: after a document edit that inserts N characters strictly
   before the start of every live suggestion, each live suggestion's from and
   to are both increased by N, and an acceptOne(id) that follows replaces
   exactly the shifted range. *)
InsertionShiftsEveryRange ==
    [][/\ (Did("documentChange") /\ InsertsBeforeAll(last'.change, suggestions)) =>
            \A i \in 1..Len(suggestions) :
                Live(suggestions', suggestions[i].id) =>
                    KeptAs(suggestions[i],
                           suggestions[i].from + Len(last'.change.insert),
                           suggestions[i].to + Len(last'.change.insert))
       /\ (InsertedBeforeAll /\ Did("acceptOne") /\ Live(suggestions, last'.id)) =>
            LET s == TheLive(suggestions, last'.id)
            IN doc' = Replace(doc, s.from, s.to, s.suggestedText)]_vars

(* C23, amended: after a document edit that inserts N characters strictly
   before the start of every live suggestion, each live suggestion whose range
   lies in the document (0 <= from <= to <= length) stays live with from and
   to both increased by N and still holds its originalText if it did before;
   an acceptOne(id) that follows on such a suggestion replaces exactly the
   shifted range. *)
InsertionShiftsValidRanges ==
    [][/\ (Did("documentChange") /\ InsertsBeforeAll(last'.change, suggestions)) =>
            \A i \in 1..Len(suggestions) :
                RangeInDocument(suggestions[i], Len(doc)) =>
                    LET n == Len(last'.change.insert)
                        moved == [suggestions[i] EXCEPT !.from = @ + n,
                                                        !.to = @ + n]
                    IN /\ KeptAs(suggestions[i], moved.from, moved.to)
                       /\ HoldsOriginal(doc, suggestions[i]) =>
                              HoldsOriginal(doc', moved)
       /\ (InsertedBeforeAll /\ Did("acceptOne") /\ Live(suggestions, last'.id)
             /\ RangeInDocument(TheLive(suggestions, last'.id), Len(doc))) =>
            LET s == TheLive(suggestions, last'.id)
            IN /\ last'.change = Change(s.from, s.to, s.suggestedText)
               /\ doc' = Replace(doc, s.from, s.to, s.suggestedText)
               /\ HoldsOriginal(doc, s)]_vars

\* "uv" was typed in front of "hello world", then "world", now at [8,13),
\* was accepted as "earth"
InsertionShiftsWitness ==
    /\ last.op = "acceptOne"
    /\ last.how = "applied"
    /\ last.change = Change(8, 13, Earth)
    /\ edits = 1
    /\ doc = <<"u", "v">> \o SubSeq(HelloWorld, 1, 6) \o Earth

\* the live suggestions all have ranges in the document, pairwise disjoint
AllValidAndApart(suggs, len) ==
    /\ \A i \in 1..Len(suggs) : RangeInDocument(suggs[i], len)
    /\ \A i, j \in 1..Len(suggs) : i # j => Apart(suggs[i], suggs[j])

\* the document text acceptAll() would leave
AcceptAllText(text, suggs) ==
    ApplyChanges(text, AcceptAllChanges(suggs, Len(text)))

(* C28: when the live suggestions all have valid, pairwise disjoint ranges,
   acceptAll() yields the same final text as accepting them one at a time in
   any order: an acceptOne that is applied leaves a document and remapped
   suggestions from which acceptAll() yields the text it would have yielded
   before. *)
AcceptOrderDoesNotMatter ==
    [][(AllValidAndApart(suggestions, Len(doc)) /\ Did("acceptOne")
          /\ last'.how = "applied") =>
          AcceptAllText(doc', suggestions') = AcceptAllText(doc, suggestions)]_vars

(* C29: every suggestion returned by build(original, modified, rangeStart,
   rangeEnd) has as originalText the slice of original at
   [from - rangeStart, to - rangeStart): to - from is the length of
   originalText, and a pure insertion has from = to. *)
BuiltHoldsOriginalSlice ==
    Built =>
        \A i \in 1..Len(last.result) :
            LET s == last.result[i]
                a == s.from - last.selectionStart
                b == s.to - last.selectionStart
            IN /\ 0 <= a /\ a <= b /\ b <= Len(last.originalText)
               /\ s.originalText = SubSeq(last.originalText, a + 1, b)
               /\ s.to - s.from = Len(s.originalText)
               /\ (s.originalText = << >> => s.from = s.to)

\* a replacement behind an added part and an unchanged line: the added part
\* did not move the cursor
BuiltHoldsOriginalSliceWitness ==
    /\ Built
    /\ Len(last.result) = 2
    /\ last.result[1].from = last.result[1].to
    /\ Len(last.result[1].suggestedText) > 0
    /\ last.result[2].from > last.result[1].from
    /\ last.result[2].to > last.result[2].from
    /\ Len(last.result[2].suggestedText) > 0

\* buildSegments has run
Segmented == last.op = "buildSegments"

RECURSIVE RemovedRun(_, _)
\* the text of the run of removed parts that ends with part i
RemovedRun(parts, i) ==
    IF i = 0 \/ ~parts[i].removed THEN << >>
    ELSE RemovedRun(parts, i - 1) \o parts[i].value

\* the indices of the parts that end a run of removed parts, in order
RunEnds(parts) ==
    SelectSeq([i \in 1..Len(parts) |-> i],
              LAMBDA i : parts[i].removed
                           /\ (i = Len(parts) \/ ~parts[i + 1].removed))

\* what a run of removed parts that ends with part i becomes
RunSegment(parts, i) ==
    IF i < Len(parts) /\ parts[i + 1].added
    THEN Segment("replace", RemovedRun(parts, i), parts[i + 1].value)
    ELSE Segment("remove", RemovedRun(parts, i), << >>)

(* C30: in the Segmenter output a run of removed parts immediately followed
   by an added part is exactly one replace segment (original: the removed
   texts concatenated, modified: the added text), a removed run followed by
   context or by the end of the input is exactly one remove segment, and no
   remove segment is immediately followed by an add segment. *)
RemovedRunsCollapse ==
    Segmented =>
        LET parts == last.changes
            ends == RunEnds(parts)
        IN /\ SelectSeq(last.result,
                        LAMBDA g : g.kind = "replace" \/ g.kind = "remove")
                 = [k \in 1..Len(ends) |-> RunSegment(parts, ends[k])]
           /\ \A j \in 1..(Len(last.result) - 1) :
                  ~(last.result[j].kind = "remove"
                      /\ last.result[j + 1].kind = "add")

\* two removed parts and an added part became one replace segment, and a
\* removed part at the end became a remove segment
RemovedRunsWitness ==
    /\ Segmented
    /\ \E i \in 1..(Len(last.changes) - 2) :
           /\ last.changes[i].removed
           /\ last.changes[i + 1].removed
           /\ last.changes[i + 2].added
    /\ \E j \in 1..Len(last.result) :
           /\ last.result[j].kind = "replace"
           /\ Len(last.result[j].original) > 1
    /\ last.result[Len(last.result)].kind = "remove"

\* what segment g contributes to the materialized text
Contribution(g) ==
    IF g.kind = "context" THEN g.original
    ELSE IF g.kind = "replace"
         THEN (IF g.accepted THEN g.modified ELSE g.original)
    ELSE IF g.kind = "add"
         THEN (IF g.accepted THEN g.modified ELSE << >>)
    ELSE (IF g.accepted THEN << >> ELSE g.original)

(* C24: in the Review Dialog every segment starts accepted; the text that
   Apply materializes is the concatenation per segment of: context, its text;
   replace, modified if accepted else original; add, modified if accepted
   else empty; remove, empty if accepted else original. With every segment
   accepted it is modifiedText, with every non-context segment toggled off it
   is originalText. *)
MaterializedText ==
    [][/\ Did("reviewDiff") =>
            \A i \in 1..Len(modal'.segments) : modal'.segments[i].accepted
       /\ Did("apply") =>
            LET segs == modal.segments
                text == promise'[Len(promise')].text
            IN /\ Len(promise') = Len(promise) + 1
               /\ ~promise'[Len(promise')].null
               /\ text = Concat([i \in 1..Len(segs) |-> Contribution(segs[i])])
               /\ (\A i \in 1..Len(segs) : segs[i].accepted) =>
                      text = last.modifiedText
               /\ (\A i \in 1..Len(segs) :
                      segs[i].kind # "context" => ~segs[i].accepted) =>
                      text = last.originalText]_vars

\* a replace segment and a remove segment were both toggled off, and Apply
\* gave the original text back
MaterializedTextWitness ==
    /\ last.op = "apply"
    /\ last.originalText # last.modifiedText
    /\ \E i, j \in 1..Len(modal.segments) :
           /\ modal.segments[i].kind = "replace"
           /\ modal.segments[j].kind = "remove"
    /\ \A i \in 1..Len(modal.segments) :
           modal.segments[i].kind # "context" => ~modal.segments[i].accepted
    /\ promise = <<Outcome(last.originalText, Undefined)>>

\* the title the dialog may rename to: params.newTitle trimmed, if it is not
\* blank and is not the current title
DistinctNewTitle ==
    IF last.newTitle # Undefined /\ Trim(last.newTitle) # ""
          /\ Trim(last.newTitle) # last.currentTitle
    THEN Trim(last.newTitle) ELSE Undefined

(* C25: over any sequence of toggle, apply, cancel and close events the
   promise of the Review Dialog is resolved exactly once: Apply resolves with
   the materialized text, and with renameTo only if the title is accepted and
   a distinct non-blank title was proposed; Cancel, or closing the dialog
   without applying, resolves with null; a close after that resolves nothing
   more. *)
DialogResolvesOnce ==
    [][/\ Len(promise') <= 1
       /\ modal'.screen = "open" => promise' = << >>
       /\ modal'.screen = "closed" => Len(promise') = 1
       /\ Did("apply") =>
            promise' = <<Outcome(BuildResultText(modal.segments),
                                 IF modal.titleAccepted THEN DistinctNewTitle
                                 ELSE Undefined)>>
       /\ Did("cancel") => promise' = <<NullResult>>
       /\ (Did("close") /\ modal.screen = "open") => promise' = <<NullResult>>
       /\ modal.screen = "closed" => promise' = promise]_vars

\* Apply with the title kept resolved with a renameTo, and the close that
\* followed resolved nothing more
DialogResolvesOnceWitness ==
    /\ last.op = "close"
    /\ modal.screen = "closed"
    /\ Len(promise) = 1
    /\ ~promise[1].null
    /\ promise[1].renameTo = "New"
    /\ promise[1].text # last.modifiedText

\* how many of the notices are the failure notice
Failures(log) == Cardinality({i \in 1..Len(log) : log[i] = FailureNotice})

(* C26: if the language-model call fails during formatSelectionWithAI, no
   suggestions are built and no review is started (showInlineSuggestions is
   not called, the document stays as it is), and the failure is reported to
   the user exactly once. *)
FailureIsReportedOnce ==
    [][/\ Did("modelFails") =>
            /\ doc' = doc
            /\ suggestions' = suggestions
            /\ sessions' = sessions
            /\ resolveCallback' = resolveCallback
            /\ calls' = calls
            /\ Failures(notices') = 1
       /\ last.op = "modelFails" =>
            /\ sessions' = 0
            /\ suggestions' = << >>
            /\ notices' = notices]_vars

\* the model failed after the user had edited the document: the running
\* notice and the failure notice were shown, and no review was started
FailureWitness ==
    /\ last.op = "modelFails"
    /\ edits > 0
    /\ notices = <<RunningNotice, FailureNotice>>
    /\ sessions = 0
    /\ suggestions = << >>

\* text holds part as a run of consecutive tokens
Contains(text, part) ==
    \E at \in 0..(Len(text) - Len(part)) :
        SubSeq(text, at + 1, at + Len(part)) = part

(* C27: with 'Format comments' disabled, each HTML comment of the selection
   is replaced by a placeholder of its own before the text is sent to the
   model, and every comment whose placeholder the model returns appears
   character for character in the formatted result, whatever the comment
   holds and however many comments there are. *)
CommentsArePreserved ==
    /\ last.op \in {"callOllama", "restoreComments"} =>
          /\ ~FirstComment(last.textToFormat).found
          /\ \A i, j \in 1..Len(last.comments) :
                 last.comments[i].placeholder = last.comments[j].placeholder
                     => i = j
          /\ \A i \in 1..Len(last.comments) :
                 Contains(last.textToFormat, <<last.comments[i].placeholder>>)
    /\ last.op = "restoreComments" =>
          \A i \in 1..Len(last.comments) :
              Contains(last.response, <<last.comments[i].placeholder>>) =>
                  Contains(last.result, last.comments[i].original)

\* the operations that decide on body suggestions
BodyOperations == {"acceptOne", "rejectOne", "acceptAll", "rejectAll"}

(* C31: once acceptTitle has accepted a pending title, the first result the
   review delivers through a body operation is an Outcome whose renameTo is
   that title when the operation is acceptOne, rejectOne or acceptAll, and
   null when it is rejectAll. *)
AcceptedTitleSurvivesAccepts ==
    [][(/\ Invoked
        /\ calls[resolveCallback] = << >>
        /\ decision = Decided("accepted", storedProposedTitle, "acceptTitle")
        /\ titleAccepted
        /\ last'.op \in BodyOperations) =>
          IF Did("rejectAll")
          THEN TheOutcome.null
          ELSE /\ ~TheOutcome.null
               /\ TheOutcome.renameTo = decision.title]_vars

\* the title was accepted while a suggestion was live, and accepting that
\* suggestion delivered the title
AcceptedTitleWitness ==
    /\ last.op = "acceptOne"
    /\ last.how = "applied"
    /\ last.live = 1
    /\ decision = Decided("accepted", "New", "acceptTitle")
    /\ Len(calls[1]) = 1
    /\ calls[1][1].renameTo = "New"

\* the statement of C31 as given: rejectAll too delivers the accepted title
AcceptedTitleIsDelivered ==
    [][(/\ Invoked
        /\ calls[resolveCallback] = << >>
        /\ decision = Decided("accepted", storedProposedTitle, "acceptTitle")
        /\ titleAccepted
        /\ last'.op \in BodyOperations) =>
          /\ ~TheOutcome.null
          /\ TheOutcome.renameTo = decision.title]_vars

\* the step of a control of one view leaves every other view as it was and
\* is applied to the view of the control
ActsOnItsOwnView ==
    /\ last'.target = last'.view
    /\ \A w \in ViewIds \ {last'.view} : views'[w] = views[w]

\* the first Outcome a review receives in this step carries the title that was
\* accepted in that review, and no title if none was
DeliversItsOwnTitle ==
    \A s \in 1..MaxShows :
        (calls[s] = << >> /\ Len(calls'[s]) = 1 /\ ~calls'[s][1].null) =>
            calls'[s][1].renameTo = IF decision'[s].kind = "accepted"
                                    THEN decision'[s].title ELSE Undefined

(* C32: reviews open in different views do not interfere: every operation
   started in one view is applied to that view and leaves the other views
   alone, and the Outcome a review receives reports its own title decision,
   whatever acceptTitle, rejectTitle or showInlineSuggestions did in another
   view. *)
ViewsDoNotInterfere ==
    [][ActsOnItsOwnView /\ DeliversItsOwnTitle]_vars

\* the review of promise s has ended: its callback is registered in no view
ReviewEnded(s) ==
    /\ s <= sessions
    /\ \A v \in ViewIds : views[v].field.resolveCallback # s

(* C33: a promise returned by showInlineSuggestions whose review has ended
   has been resolved, with an Outcome or with null; this includes the review
   that ends because a second showInlineSuggestions replaces it in its view.
   A promise whose callback is registered nowhere and that was not resolved
   stays pending forever. *)
EndedReviewsAreResolved ==
    \A s \in 1..MaxShows : ReviewEnded(s) => calls[s] # << >>

\* a review is open in view v: its callback is registered and was never
\* invoked, and a suggestion is live or a title is pending
OpenInView(v) ==
    LET field == views[v].field
    IN /\ field.resolveCallback # NoCallback
       /\ calls[field.resolveCallback] = << >>
       /\ (Len(field.suggestions) > 0 \/ Truthy(field.proposedTitle))

(* C34: whenever a review is open in a view, the decorations of the view hold
   a control: the toolbar, the buttons of a live suggestion or the title
   widget; with no live suggestion and a title pending the title widget is
   rendered, also when currentTitle is undefined. *)
OpenReviewRendersAControl ==
    \A v \in ViewIds :
        OpenInView(v) =>
            \/ ToolbarRendered(v)
            \/ TitleWidgetRendered(v)
            \/ \E id \in OperationIds : ButtonsRendered(v, id)

\* change c touches nothing strictly inside the range of suggestion s
OutsideOf(c, s) == c.to <= s.from \/ s.to <= c.from

(* C35: if the range of every live suggestion holds its originalText, it
   still does after any session operation and after any document edit whose
   changed range does not intersect the open interval (from, to) of a live
   suggestion, an insertion exactly at from or exactly at to included. *)
RangesKeepHoldingOriginal ==
    [][(/\ ~Did("showInlineSuggestions")
        /\ \A i \in 1..Len(suggestions) : HoldsOriginal(doc, suggestions[i])
        /\ Did("documentChange") =>
               \A i \in 1..Len(suggestions) :
                   OutsideOf(last'.change, suggestions[i]))
       => \A j \in 1..Len(suggestions') :
              HoldsOriginal(doc', suggestions'[j])]_vars

\* the document no longer holds the captured selection in
\* [selectionFrom, selectionTo) when the answer arrives
SelectionEdited ==
    \/ request.selectionTo > Len(doc)
    \/ SubSeq(doc, request.selectionFrom + 1, request.selectionTo)
           # request.selection

(* C36: when the answer of the model arrives and the text in [selectionFrom,
   selectionTo) differs from the selection captured before the call, no
   review is started, and an answer that differs from the selection ends in
   the 'Document changed' notice. *)
EditedSelectionIsNotReviewed ==
    [][(Did("modelAnswers") /\ SelectionEdited) =>
          /\ last'.how # "shown"
          /\ sessions' = sessions
          /\ suggestions' = suggestions
          /\ last'.how # "unchanged" =>
                 /\ last'.how = "docChanged"
                 /\ notices' = Append(notices, DocChangedNotice)]_vars

(* C37: the inline review and the review dialog agree. They show as many
   suggestions as segments to decide on, and when the suggestions are
   accepted or rejected one by one, in any order, each as its segment is
   kept or skipped, the review resolves with an Outcome whose text is the
   text the dialog materializes from its segments. *)
SessionAgreesWithDialog ==
    [][/\ Did("reviewBoth") =>
              Len(suggestions') = Len(NonContext(modal'.segments, 1))
       /\ (Invoked /\ calls[resolveCallback] = << >>
             /\ last'.op \in {"acceptOne", "rejectOne"}) =>
              /\ ~TheOutcome.null
              /\ TheOutcome.text = BuildResultText(modal.segments)]_vars

\* a review of two suggestions has resolved, one accepted and one rejected,
\* on a text that is neither the original nor the modified text
SessionAgreesWitness ==
    /\ last.op \in {"acceptOne", "rejectOne"}
    /\ Len(NonContext(modal.segments, 1)) = 2
    /\ \E i, j \in 1..Len(modal.segments) :
           /\ modal.segments[i].kind # "context" /\ modal.segments[i].accepted
           /\ modal.segments[j].kind # "context" /\ ~modal.segments[j].accepted
    /\ Len(calls[1]) = 1
    /\ calls[1][1].text = BuildResultText(modal.segments)
    /\ calls[1][1].text = doc

\* currentChatId is null exactly when there is no chat, and is otherwise the
\* id of a chat of the list
CurrentChatIsListed(d) ==
    IF d.chats = << >> THEN d.currentChatId = Null
    ELSE \E i \in 1..Len(d.chats) : d.chats[i].id = d.currentChatId

(* C38: from a freshly constructed ChatStorage on, currentChatId is null
   exactly when the chat list is empty and otherwise the id of a listed
   chat; createChat puts the new chat first and makes it current, deleting
   the current chat makes the first remaining chat current, and
   setCurrentChat with an unknown id changes nothing. *)
CurrentChatStaysListed ==
    [][/\ CurrentChatIsListed(data) /\ CurrentChatIsListed(data')
       /\ Did("createChat") =>
              /\ data'.chats = <<Chat(last'.chatId)>> \o data.chats
              /\ data'.currentChatId = last'.chatId
       /\ (Did("deleteChat") /\ data.currentChatId = last'.chatId
             /\ Len(data'.chats) > 0) =>
              data'.currentChatId = data'.chats[1].id
       /\ (Did("setCurrentChat")
             /\ \A i \in 1..Len(data.chats) : data.chats[i].id # last'.chatId)
              => data' = data]_vars

\* the current chat, which was not the first of three, was deleted and the
\* first of the two that remain is current
CurrentChatWitness ==
    /\ last.op = "deleteChat"
    /\ Len(last.before.chats) = 3
    /\ last.before.currentChatId = last.chatId
    /\ last.before.chats[1].id # last.chatId
    /\ Len(data.chats) = 2
    /\ data.currentChatId = data.chats[1].id

\* the dropdown and the selection fit together, and resolve was called at
\* most once
PromptIsSound(w) ==
    /\ Len(w.resolved) <= 1
    /\ w.isDropdownOpen => w.selectedIndex \in 0..(PresetCount - 1)
    /\ ~w.isDropdownOpen => w.selectedIndex = -1

\* this step is a keydown of the key
Pressed(key) == last'.op = "keydown" /\ last'.arg = key

(* C39: over any sequence of key, click and hover events resolve is called
   at most once: with {prompt} on Enter with non-blank trimmed input or on
   choosing a preset, with null on Escape, an outside click or an
   unavailable editor position, and not at all on Enter with blank input and
   a closed dropdown; the selected index is within the presets while the
   dropdown is open and -1 while it is closed. *)
PromptResolvesOnce ==
    [][/\ PromptIsSound(widget) /\ PromptIsSound(widget')
       /\ widget.resolved # << >> => widget' = widget
       /\ (Pressed("Enter") /\ ~widget.isDropdownOpen) =>
              widget'.resolved =
                  IF Trim(widget.value) # ""
                  THEN <<PromptResult(Trim(widget.value))>> ELSE << >>
       /\ (Pressed("Enter") /\ widget.isDropdownOpen) =>
              widget'.resolved =
                  <<PromptResult(PresetPrompt(widget.selectedIndex))>>
       /\ Did("click") => widget'.resolved = <<PromptResult(last'.arg)>>
       /\ (Pressed("Escape")
             \/ (Did("mousedown") /\ last'.arg = "outside")
             \/ (Did("showInlinePrompt") /\ last'.arg # "coords")) =>
              widget'.resolved = <<NullPrompt>>
       /\ widget'.resolved # widget.resolved =>
              \/ Pressed("Enter") \/ Pressed("Escape") \/ Did("click")
              \/ Did("mousedown") \/ Did("showInlinePrompt")]_vars

\* the user opened the dropdown, moved to the last preset and chose it with
\* Enter
PromptWitness ==
    /\ last.op = "keydown" /\ last.arg = "Enter"
    /\ last.before.isDropdownOpen
    /\ last.before.selectedIndex = PresetCount - 1
    /\ widget.screen = "closed"
    /\ widget.resolved = <<PromptResult(PresetPrompt(PresetCount - 1))>>

====
